---- MODULE Spec2Model ----
(***************************************************************************)
(* A model of the sentinel-based doubly linked list, of the PositionalList *)
(* and the Deque built on it (08. Linked Lists/_DoublyLinkedListBase.py,   *)
(* PositionalList.py, Deque.py) and of the array-based CircularQueue       *)
(* (07. Queues/CircularQueue.py).  Each container has its variables and    *)
(* its specification: Spec for the PositionalList, DequeSpec for the       *)
(* Deque, CircularQueueSpec for the CircularQueue.                         *)
(*                                                                         *)
(* Two PositionalList instances, "A" and "B", share one heap of nodes.  A  *)
(* node is its index in the sequence heap; Python's None is 0.  A Position *)
(* object is the immutable pair (container, node); the code never compares *)
(* Position objects by identity, so two Position objects with the same     *)
(* pair are the same value here, and aliases are several client variables  *)
(* (slots) holding that value.                                             *)
(*                                                                         *)
(* Every method is an operator from a store S = [heap, size] and the       *)
(* method's arguments to its outcome: the store it leaves and the value it *)
(* returns or the exception it raises.  An outcome is itself a store, so   *)
(* the methods can be applied to it to say what holds after the call.      *)
(***************************************************************************)
EXTENDS Integers, Sequences, FiniteSets, TLC

\* ------------------------------------------------------------------ bounds

\* Nodes the two PositionalLists may allocate in total (the sentinels not counted).
MaxNodes == 3

\* ------------------------------------------------------------ Python values

None == 0

Lists == {"A", "B"}

\* The element values the client stores: two suffice to tell an element from
\* its neighbours and from None.
Elements == {1, 2}

\* The client's variables that hold the positions the operations return: two,
\* so that two of them can reference the same node.
Slots == {"p", "q"}

\* A value of a client variable that is None: no Position at all.
NoneValue == [type |-> "NoneType", container |-> "-", node |-> None]

\* Position.__init__: the pair (container, node).
Position(container, node) ==
  [type |-> "Position", container |-> container, node |-> node]

\* _Node.__init__
_Node(element, prev_node, next_node) ==
  [element |-> element, prev |-> prev_node, next |-> next_node]

\* The sentinels the two constructors allocate: header and trailer of A, then of B.
Header(L) == IF L = "A" THEN 1 ELSE 3

Trailer(L) == IF L = "A" THEN 2 ELSE 4

Sentinels == {Header(L) : L \in Lists} \cup {Trailer(L) : L \in Lists}

VARIABLES
  heap,     \* the nodes: heap[n] = [element, prev, next]
  size,     \* size[L] = L._size
  slots,    \* the client's variables: each None or a Position
  issued,   \* history: every Position an operation has returned
  deleted,  \* history: every Position a delete has removed
  adds,     \* history: adds[L] = calls of L.add_first, add_last, add_before, add_after that returned
  deletes,  \* history: deletes[L] = calls of L.delete that returned
  dq,       \* the store [heap, size] of two linked Deque instances, "A" and "B"
  dqRet,    \* what the last call on a Deque returned or raised: [exc, value]
  dqAbs,    \* dqAbs[L]: the abstract sequence the calls on Deque L drive
  dqAbsRet, \* what the last call returns or raises on the abstract sequence
  cq,       \* the CircularQueue: [data, size, front, capacity]
  cqRet,    \* what the last call on the CircularQueue returned or raised: [exc, value]
  cqFifo,   \* history: the elements enqueued and not yet dequeued, oldest first
  cqWant,   \* history: what the order of the enqueues has the last call return
  cqWraps,  \* history: whether the front index / the insertion index has wrapped
  cd,       \* the CircularDeque: [data, size, front, capacity]
  cdRet,    \* what the last call on the CircularDeque returned or raised: [exc, value]
  cdAbs,    \* the abstract bounded sequence the calls on the CircularDeque drive
  cdAbsRet, \* what the last call returns or raises on the abstract sequence
  cdWraps,  \* history: whether the front index has wrapped down / the rear index up
  aq,       \* the ArrayQueue: [data, size, front]
  aqRet,    \* what the last call on the ArrayQueue returned or raised: [exc, value]
  aqFifo,   \* history: the elements enqueued and not yet dequeued, oldest first
  aqWant,   \* history: what the order of the enqueues has the last call return
  aqCalls,  \* history: the number of enqueue calls so far
  aqMoved,  \* history: whether a resize has happened, and the front index at the last
  lq,       \* the LinkedQueue: [nodes, head, tail, size]
  lqRet,    \* what the last call on the LinkedQueue returned or raised: [exc, value, batch]
  lqFifo,   \* history: the elements enqueued and not yet dequeued, oldest first
  lqWant,   \* history: what the order of the enqueues has the last call return
  lqPast,   \* history: the items the queue was built from, and whether it was emptied and refilled
  lcq,      \* the LinkedListCircularQueue: [nodes, tail, size]
  lcqRet,   \* what the last call on it returned or raised: [exc, value, batch]
  lcqFifo,  \* history: the front-to-back order the enqueues, dequeues and rotations make
  lcqWant,  \* history: what that order has the last call return
  lcqTurns, \* history: the rotate() calls since the last call of another method
  ls,       \* the LinkedStack: [nodes, head, size]
  lsRet,    \* what the last call on the LinkedStack returned or raised: [exc, value, batch]
  ast,      \* the ArrayStack: its list _data
  astRet,   \* what the last call on the ArrayStack returned or raised: [exc, value]
  stLifo,   \* history: the elements pushed and not yet popped, oldest first
  stWant,   \* history: what the order of the pushes has the last call return
  exInfix,  \* the infix expression the client has read, a string of characters
  exWant,   \* history: the postfix form and the value the expression was written with
  exPostfix,      \* what convert_infix_to_postfix(exInfix) returned or raised
  exPrefix,       \* what convert_infix_to_prefix(exInfix) returned or raised
  exPostfixValue, \* what evaluate_postfix of the postfix form returned or raised
  exPrefixValue   \* what evaluate_prefix of the prefix form returned or raised

\* The variables of the PositionalList instances and their client.
positionalVars == <<heap, size, slots, issued, deleted, adds, deletes>>

\* The variables of the linked Deque instances and their abstract sequences.
dequeVars == <<dq, dqRet, dqAbs, dqAbsRet>>

\* The variables of the CircularQueue and its history.
circularQueueVars == <<cq, cqRet, cqFifo, cqWant, cqWraps>>

\* The variables of the CircularDeque and its abstract sequence.
circularDequeVars == <<cd, cdRet, cdAbs, cdAbsRet, cdWraps>>

\* The variables of the ArrayQueue and its history.
arrayQueueVars == <<aq, aqRet, aqFifo, aqWant, aqCalls, aqMoved>>

\* The variables of the LinkedQueue and its history.
linkedQueueVars == <<lq, lqRet, lqFifo, lqWant, lqPast>>

\* The variables of the LinkedListCircularQueue and its history.
linkedCircularQueueVars == <<lcq, lcqRet, lcqFifo, lcqWant, lcqTurns>>

\* The variables of the LinkedStack and the ArrayStack and their history.
stackVars == <<ls, lsRet, ast, astRet, stLifo, stWant>>

\* The variables of the client of the expression utilities.
expressionVars == <<exInfix, exWant, exPostfix, exPrefix, exPostfixValue, exPrefixValue>>

\* Every variable of the model.
vars == <<positionalVars, dequeVars, circularQueueVars, circularDequeVars, arrayQueueVars, linkedQueueVars, linkedCircularQueueVars, stackVars, expressionVars>>

\* What the operations on positionalVars leave alone.
exceptPositional == <<dequeVars, circularQueueVars, circularDequeVars,
                      arrayQueueVars, linkedQueueVars,
                      linkedCircularQueueVars, stackVars, expressionVars>>

\* What the operations on dequeVars leave alone.
exceptDeque == <<positionalVars, circularQueueVars, circularDequeVars,
                 arrayQueueVars, linkedQueueVars, linkedCircularQueueVars,
                 stackVars, expressionVars>>

\* What the operations on circularQueueVars leave alone.
exceptCircularQueue == <<positionalVars, dequeVars, circularDequeVars,
                         arrayQueueVars, linkedQueueVars,
                         linkedCircularQueueVars, stackVars, expressionVars>>

\* What the operations on circularDequeVars leave alone.
exceptCircularDeque == <<positionalVars, dequeVars, circularQueueVars,
                         arrayQueueVars, linkedQueueVars,
                         linkedCircularQueueVars, stackVars, expressionVars>>

\* What the operations on arrayQueueVars leave alone.
exceptArrayQueue == <<positionalVars, dequeVars, circularQueueVars,
                      circularDequeVars, linkedQueueVars,
                      linkedCircularQueueVars, stackVars, expressionVars>>

\* What the operations on linkedQueueVars leave alone.
exceptLinkedQueue == <<positionalVars, dequeVars, circularQueueVars,
                       circularDequeVars, arrayQueueVars,
                       linkedCircularQueueVars, stackVars, expressionVars>>

\* What the operations on linkedCircularQueueVars leave alone.
exceptLinkedCircularQueue == <<positionalVars, dequeVars, circularQueueVars,
                               circularDequeVars, arrayQueueVars,
                               linkedQueueVars, stackVars, expressionVars>>

\* What the operations on stackVars leave alone.
exceptStack == <<positionalVars, dequeVars, circularQueueVars,
                 circularDequeVars, arrayQueueVars, linkedQueueVars,
                 linkedCircularQueueVars, expressionVars>>

\* What the operations on expressionVars leave alone.
exceptExpression == <<positionalVars, dequeVars, circularQueueVars,
                      circularDequeVars, arrayQueueVars, linkedQueueVars,
                      linkedCircularQueueVars, stackVars>>

\* What the calls made on the three linked containers alike leave alone.
exceptLinked == <<positionalVars, dequeVars, circularQueueVars,
                  circularDequeVars, arrayQueueVars, expressionVars>>

\* The store the program is in.
Store == [heap |-> heap, size |-> size]

\* ------------------------------------------------- _DoublyLinkedListBase

\* _DoublyLinkedListBase.__init__, for both lists.
InitHeap ==
  << _Node(None, None, Trailer("A")), _Node(None, Header("A"), None),
     _Node(None, None, Trailer("B")), _Node(None, Header("B"), None) >>

\* The outcome of a call that returns value and leaves heap h and sizes sz.
Return(h, sz, value) ==
  [heap |-> h, size |-> sz, exc |-> "none", msg |-> "", value |-> value]

\* The outcome of a call that raises exc(msg) and leaves heap h and sizes sz.
Raise(h, sz, exc, msg) ==
  [heap |-> h, size |-> sz, exc |-> exc, msg |-> msg, value |-> None]

EmptyMsg == "Cannot perform operation on empty list"

\* __len__
__len__(S, L) == S.size[L]

\* is_empty
is_empty(S, L) == S.size[L] = 0

\* A mutant of invalidate: the element is cleared and the links are kept.
invalidate_keeps_links(h, n) == [h EXCEPT ![n].element = None]

\* A mutant of invalidate: the links are cleared and the element is kept.
invalidate_keeps_element(h, n) == [h EXCEPT ![n].prev = None, ![n].next = None]

\* _Node.invalidate, on node n of heap h.
invalidate(h, n) == [h EXCEPT ![n] = _Node(None, None, None)]

\* A mutant of _insert_between: the successor's prev link is not updated.
Base_insert_between_no_back_link(S, L, element, predecessor, successor) ==
  LET newest == Len(S.heap) + 1
      h0 == Append(S.heap, _Node(element, predecessor, successor))
  IN  IF predecessor = None
      THEN Raise(S.heap, S.size, "AttributeError", "'NoneType' object has no attribute '_next'")
      ELSE LET h1 == [h0 EXCEPT ![predecessor].next = newest]
           IN  Return(h1, [S.size EXCEPT ![L] = S.size[L] + 1], newest)

\* _DoublyLinkedListBase._insert_between: the new node is Len(heap) + 1.  A
\* None predecessor or successor is an AttributeError at the assignment to it.
Base_insert_between(S, L, element, predecessor, successor) ==
  LET newest == Len(S.heap) + 1
      h0 == Append(S.heap, _Node(element, predecessor, successor))
  IN  IF predecessor = None
      THEN Raise(S.heap, S.size, "AttributeError", "'NoneType' object has no attribute '_next'")
      ELSE LET h1 == [h0 EXCEPT ![predecessor].next = newest]
           IN  IF successor = None
               THEN Raise(h1, S.size, "AttributeError", "'NoneType' object has no attribute '_prev'")
               ELSE LET h2 == [h1 EXCEPT ![successor].prev = newest]
                    IN  Return(h2, [S.size EXCEPT ![L] = S.size[L] + 1], newest)

\* A mutant of _delete_node: the size is not decremented.
_delete_node_keeps_size(S, L, node) ==
  LET predecessor == S.heap[node].prev
      successor == S.heap[node].next
      h1 == [S.heap EXCEPT ![predecessor].next = successor]
      h2 == [h1 EXCEPT ![successor].prev = predecessor]
  IN  IF is_empty(S, L)
      THEN Raise(S.heap, S.size, "Empty", EmptyMsg)
      ELSE Return(invalidate(h2, node), S.size, h2[node].element)

\* A mutant of _delete_node: the node is unlinked and never invalidated.
_delete_node_no_invalidate(S, L, node) ==
  LET predecessor == S.heap[node].prev
      successor == S.heap[node].next
      h1 == [S.heap EXCEPT ![predecessor].next = successor]
      h2 == [h1 EXCEPT ![successor].prev = predecessor]
  IN  IF is_empty(S, L)
      THEN Raise(S.heap, S.size, "Empty", EmptyMsg)
      ELSE Return(h2, [S.size EXCEPT ![L] = S.size[L] - 1], h2[node].element)

\* A mutant of _delete_node: the element is read after the node is invalidated.
_delete_node_reads_after_invalidate(S, L, node) ==
  LET predecessor == S.heap[node].prev
      successor == S.heap[node].next
      h1 == [S.heap EXCEPT ![predecessor].next = successor]
      h2 == [h1 EXCEPT ![successor].prev = predecessor]
      h3 == invalidate(h2, node)
  IN  IF is_empty(S, L)
      THEN Raise(S.heap, S.size, "Empty", EmptyMsg)
      ELSE Return(h3, [S.size EXCEPT ![L] = S.size[L] - 1], h3[node].element)

\* _DoublyLinkedListBase._delete_node.  A None predecessor or successor is an
\* AttributeError at the assignment to it.
_delete_node(S, L, node) ==
  IF is_empty(S, L)
  THEN Raise(S.heap, S.size, "Empty", EmptyMsg)
  ELSE LET predecessor == S.heap[node].prev
           successor == S.heap[node].next
       IN  IF predecessor = None
           THEN Raise(S.heap, S.size, "AttributeError", "'NoneType' object has no attribute '_next'")
           ELSE LET h1 == [S.heap EXCEPT ![predecessor].next = successor]
                IN  IF successor = None
                    THEN Raise(h1, S.size, "AttributeError",
                               "'NoneType' object has no attribute '_prev'")
                    ELSE LET h2 == [h1 EXCEPT ![successor].prev = predecessor]
                             element == h2[node].element
                         IN  Return(invalidate(h2, node),
                                    [S.size EXCEPT ![L] = S.size[L] - 1], element)

\* The nodes reached from node n of heap h by following next, n first, up to
\* (not including) node stop; the walk ends at a None link and after fuel steps.
RECURSIVE WalkNext(_, _, _, _)
WalkNext(h, n, stop, fuel) ==
  IF n = stop \/ n = None \/ fuel = 0
  THEN << >>
  ELSE << n >> \o WalkNext(h, h[n].next, stop, fuel - 1)

\* The nodes strictly between L's sentinels in store S, front to back.
Chain(S, L) == WalkNext(S.heap, S.heap[Header(L)].next, Trailer(L), Len(S.heap))

\* _DoublyLinkedListBase.__iter__: the elements front to back.
ElementsOf(S, L) ==
  LET chain == Chain(S, L)
  IN  [i \in 1..Len(chain) |-> S.heap[chain[i]].element]

Range(s) == {s[i] : i \in 1..Len(s)}

\* ---------------------------------------------------------- PositionalList

TypeMsg == "p must be proper Position type"

BelongMsg == "p does not belong to this container"

StaleMsg == "p is no longer valid"

\* A mutant of _validate: the staleness check is left out.
_validate_no_stale_check(S, L, p) ==
  IF p.type # "Position"
  THEN Raise(S.heap, S.size, "TypeError", TypeMsg)
  ELSE IF p.container # L
       THEN Raise(S.heap, S.size, "ValueError", BelongMsg)
       ELSE Return(S.heap, S.size, p.node)

\* A mutant of _validate: the container check is left out.
_validate_no_container_check(S, L, p) ==
  IF p.type # "Position"
  THEN Raise(S.heap, S.size, "TypeError", TypeMsg)
  ELSE IF S.heap[p.node].next = None
       THEN Raise(S.heap, S.size, "ValueError", StaleMsg)
       ELSE Return(S.heap, S.size, p.node)

\* A mutant of _validate: the type of p is not checked.
_validate_no_type_check(S, L, p) ==
  IF p.container # L
  THEN Raise(S.heap, S.size, "ValueError", BelongMsg)
  ELSE IF S.heap[p.node].next = None
       THEN Raise(S.heap, S.size, "ValueError", StaleMsg)
       ELSE Return(S.heap, S.size, p.node)

\* A mutant of _validate: the stale check comes before the container check.
_validate_stale_check_first(S, L, p) ==
  IF p.type # "Position"
  THEN Raise(S.heap, S.size, "TypeError", TypeMsg)
  ELSE IF S.heap[p.node].next = None
       THEN Raise(S.heap, S.size, "ValueError", StaleMsg)
       ELSE IF p.container # L
            THEN Raise(S.heap, S.size, "ValueError", BelongMsg)
            ELSE Return(S.heap, S.size, p.node)

\* PositionalList._validate: the three checks in the code's order; the node on
\* success.  (A Position of node None has no next to read: an AttributeError.)
_validate(S, L, p) ==
  IF p.type # "Position"
  THEN Raise(S.heap, S.size, "TypeError", TypeMsg)
  ELSE IF p.container # L
       THEN Raise(S.heap, S.size, "ValueError", BelongMsg)
       ELSE IF p.node = None
            THEN Raise(S.heap, S.size, "AttributeError", "'NoneType' object has no attribute 'next'")
            ELSE IF S.heap[p.node].next = None
                 THEN Raise(S.heap, S.size, "ValueError", StaleMsg)
                 ELSE Return(S.heap, S.size, p.node)

\* A mutant of _make_position: only the header is taken for a sentinel.
_make_position_header_only(L, node) ==
  IF node = Header(L) THEN NoneValue ELSE Position(L, node)

\* PositionalList._make_position
_make_position(L, node) ==
  IF node = Header(L) \/ node = Trailer(L) THEN NoneValue ELSE Position(L, node)

\* Position.element
element(S, p) == S.heap[p.node].element

\* A mutant of Position.__eq__: the containers are compared, not the nodes.
PositionEq_same_container(p, q) ==
  p.type = "Position" /\ q.type = "Position" /\ q.container = p.container

\* Position.__eq__ for two Position objects: the same node.
PositionEq(p, q) == p.type = "Position" /\ q.type = "Position" /\ q.node = p.node

\* PositionalList.first
first(S, L) == Return(S.heap, S.size, _make_position(L, S.heap[Header(L)].next))

\* PositionalList.last
last(S, L) == Return(S.heap, S.size, _make_position(L, S.heap[Trailer(L)].prev))

\* A mutant of before: the node's next link is followed.
before_follows_next(S, L, p) ==
  LET v == _validate(S, L, p)
  IN  IF v.exc # "none" THEN v
      ELSE Return(S.heap, S.size, _make_position(L, S.heap[v.value].next))

\* PositionalList.before
before(S, L, p) ==
  LET v == _validate(S, L, p)
  IN  IF v.exc # "none" THEN v
      ELSE Return(S.heap, S.size, _make_position(L, S.heap[v.value].prev))

\* A mutant of after: the node's prev link is followed.
after_follows_prev(S, L, p) ==
  LET v == _validate(S, L, p)
  IN  IF v.exc # "none" THEN v
      ELSE Return(S.heap, S.size, _make_position(L, S.heap[v.value].prev))

\* PositionalList.after
after(S, L, p) ==
  LET v == _validate(S, L, p)
  IN  IF v.exc # "none" THEN v
      ELSE Return(S.heap, S.size, _make_position(L, S.heap[v.value].next))

\* The loop of PositionalList.__iter__ from cursor on, in store S: each pass
\* yields cursor.element() and moves the cursor with after(cursor); the loop
\* ends when the cursor is None (done), when after raises, or undone after
\* fuel passes.  The result carries the store the loop leaves.
RECURSIVE IterFrom(_, _, _, _)
IterFrom(S, L, cursor, fuel) ==
  IF cursor = NoneValue
  THEN [heap |-> S.heap, size |-> S.size, yielded |-> << >>, exc |-> "none", done |-> TRUE]
  ELSE IF fuel = 0
       THEN [heap |-> S.heap, size |-> S.size, yielded |-> << >>, exc |-> "none",
             done |-> FALSE]
       ELSE LET a == after(S, L, cursor)
                rest == IF a.exc # "none"
                        THEN [heap |-> a.heap, size |-> a.size, yielded |-> << >>,
                              exc |-> a.exc, done |-> TRUE]
                        ELSE IterFrom(a, L, a.value, fuel - 1)
            IN  [rest EXCEPT !.yielded = << element(S, cursor) >> \o @]

\* PositionalList.__iter__, run to its end: cursor = self.first(), then the
\* loop.  No list has more nodes than the heap, so the fuel Len(S.heap) runs
\* out only in a loop that would not end.
__iter__(S, L) == IterFrom(first(S, L), L, first(S, L).value, Len(S.heap))

\* PositionalList._insert_between: the base's insertion, its node wrapped in a Position.
_insert_between(S, L, e, predecessor, successor) ==
  LET o == Base_insert_between(S, L, e, predecessor, successor)
  IN  IF o.exc # "none" THEN o
      ELSE Return(o.heap, o.size, _make_position(L, o.value))

\* A mutant of add_first: the element is inserted at the back.
add_first_at_back(S, L, e) ==
  _insert_between(S, L, e, S.heap[Trailer(L)].prev, Trailer(L))

\* PositionalList.add_first
add_first(S, L, e) == _insert_between(S, L, e, Header(L), S.heap[Header(L)].next)

\* PositionalList.add_last
add_last(S, L, e) == _insert_between(S, L, e, S.heap[Trailer(L)].prev, Trailer(L))

\* A mutant of add_before: the element is inserted after p.
add_before_inserts_after(S, L, p, e) ==
  LET v == _validate(S, L, p)
  IN  IF v.exc # "none" THEN v
      ELSE _insert_between(S, L, e, v.value, S.heap[v.value].next)

\* PositionalList.add_before
add_before(S, L, p, e) ==
  LET v == _validate(S, L, p)
  IN  IF v.exc # "none" THEN v
      ELSE _insert_between(S, L, e, S.heap[v.value].prev, v.value)

\* PositionalList.add_after
add_after(S, L, p, e) ==
  LET v == _validate(S, L, p)
  IN  IF v.exc # "none" THEN v
      ELSE _insert_between(S, L, e, v.value, S.heap[v.value].next)

\* PositionalList.delete
delete(S, L, p) ==
  LET v == _validate(S, L, p)
  IN  IF v.exc # "none" THEN v
      ELSE _delete_node(S, L, v.value)

\* A mutant of replace: the new element is returned, not the old one.
replace_returns_new(S, L, p, e) ==
  LET v == _validate(S, L, p)
  IN  IF v.exc # "none" THEN v
      ELSE Return([S.heap EXCEPT ![v.value].element = e], S.size, e)

\* A mutant of replace: the element is stored before p is validated.
replace_stores_first(S, L, p, e) ==
  LET h == IF p.type = "Position" /\ p.node # None
           THEN [S.heap EXCEPT ![p.node].element = e] ELSE S.heap
      v == _validate(S, L, p)
  IN  IF v.exc # "none" THEN Raise(h, S.size, v.exc, v.msg)
      ELSE Return(h, S.size, S.heap[v.value].element)

\* PositionalList.replace
replace(S, L, p, e) ==
  LET v == _validate(S, L, p)
  IN  IF v.exc # "none" THEN v
      ELSE LET old_value == S.heap[v.value].element
           IN  Return([S.heap EXCEPT ![v.value].element = e], S.size, old_value)

\* ------------------------------------------------------------- the client

\* What the client can pass where a Position is expected: the value of one of
\* its variables, or None.
Args == {slots[s] : s \in Slots} \cup {NoneValue}

\* The allocation bound: a call may run while its outcome stays within it.
WithinBound(o) == Len(o.heap) <= Len(InitHeap) + MaxNodes

\* slots[d] = L.op(...): a call with outcome o that returns a Position or None.
\* A call that raises assigns nothing.
CallForPosition(o, d) ==
  /\ WithinBound(o)
  /\ heap' = o.heap
  /\ size' = o.size
  /\ slots' = IF o.exc = "none" THEN [slots EXCEPT ![d] = o.value] ELSE slots
  /\ issued' = IF o.exc = "none" /\ o.value # NoneValue
                THEN issued \cup {o.value} ELSE issued
  /\ UNCHANGED exceptPositional

\* L.op(...): a call with outcome o that returns an element.
CallForElement(o) ==
  /\ heap' = o.heap
  /\ size' = o.size
  /\ UNCHANGED <<slots, issued>>
  /\ UNCHANGED exceptPositional

\* The counter of the calls on L that returned, after a call with outcome o.
Counted(counter, L, o) ==
  IF o.exc = "none" THEN [counter EXCEPT ![L] = counter[L] + 1] ELSE counter

First(L, d) ==
  /\ CallForPosition(first(Store, L), d)
  /\ UNCHANGED <<deleted, adds, deletes>>

Last(L, d) ==
  /\ CallForPosition(last(Store, L), d)
  /\ UNCHANGED <<deleted, adds, deletes>>

Before(L, p, d) ==
  /\ CallForPosition(before(Store, L, p), d)
  /\ UNCHANGED <<deleted, adds, deletes>>

After(L, p, d) ==
  /\ CallForPosition(after(Store, L, p), d)
  /\ UNCHANGED <<deleted, adds, deletes>>

AddFirst(L, e, d) ==
  /\ CallForPosition(add_first(Store, L, e), d)
  /\ adds' = Counted(adds, L, add_first(Store, L, e))
  /\ UNCHANGED <<deleted, deletes>>

AddLast(L, e, d) ==
  /\ CallForPosition(add_last(Store, L, e), d)
  /\ adds' = Counted(adds, L, add_last(Store, L, e))
  /\ UNCHANGED <<deleted, deletes>>

AddBefore(L, p, e, d) ==
  /\ CallForPosition(add_before(Store, L, p, e), d)
  /\ adds' = Counted(adds, L, add_before(Store, L, p, e))
  /\ UNCHANGED <<deleted, deletes>>

AddAfter(L, p, e, d) ==
  /\ CallForPosition(add_after(Store, L, p, e), d)
  /\ adds' = Counted(adds, L, add_after(Store, L, p, e))
  /\ UNCHANGED <<deleted, deletes>>

Delete(L, p) ==
  /\ CallForElement(delete(Store, L, p))
  /\ deleted' = IF delete(Store, L, p).exc = "none" THEN deleted \cup {p} ELSE deleted
  /\ deletes' = Counted(deletes, L, delete(Store, L, p))
  /\ UNCHANGED adds

Replace(L, p, e) ==
  /\ CallForElement(replace(Store, L, p, e))
  /\ UNCHANGED <<deleted, adds, deletes>>

\* ------------------------------------------------ Deque (08. Linked Lists)

\* Nodes the two Deques may allocate in total (the sentinels not counted).
MaxDequeNodes == 4

\* A mutant of Deque.first: no emptiness check.
Deque_first_unchecked(S, L) ==
  Return(S.heap, S.size, S.heap[S.heap[Header(L)].next].element)

\* Deque.first
Deque_first(S, L) ==
  IF is_empty(S, L)
  THEN Raise(S.heap, S.size, "Empty", EmptyMsg)
  ELSE Return(S.heap, S.size, S.heap[S.heap[Header(L)].next].element)

\* Deque.last
Deque_last(S, L) ==
  IF is_empty(S, L)
  THEN Raise(S.heap, S.size, "Empty", EmptyMsg)
  ELSE Return(S.heap, S.size, S.heap[S.heap[Trailer(L)].prev].element)

\* Deque.insert_first: the base's insertion, the new node dropped; returns None.
insert_first(S, L, e) ==
  LET o == Base_insert_between(S, L, e, Header(L), S.heap[Header(L)].next)
  IN  IF o.exc # "none" THEN o ELSE Return(o.heap, o.size, None)

\* Deque.insert_last
insert_last(S, L, e) ==
  LET o == Base_insert_between(S, L, e, S.heap[Trailer(L)].prev, Trailer(L))
  IN  IF o.exc # "none" THEN o ELSE Return(o.heap, o.size, None)

\* Deque.delete_first
delete_first(S, L) ==
  IF is_empty(S, L)
  THEN Raise(S.heap, S.size, "Empty", EmptyMsg)
  ELSE _delete_node(S, L, S.heap[Header(L)].next)

\* A mutant of Deque.delete_last: the node after the header is deleted.
delete_last_removes_first(S, L) ==
  IF is_empty(S, L)
  THEN Raise(S.heap, S.size, "Empty", EmptyMsg)
  ELSE _delete_node(S, L, S.heap[Header(L)].next)

\* Deque.delete_last
delete_last(S, L) ==
  IF is_empty(S, L)
  THEN Raise(S.heap, S.size, "Empty", EmptyMsg)
  ELSE _delete_node(S, L, S.heap[Trailer(L)].prev)

\* The abstract double-ended sequence: each operation's result on sequence s,
\* the sequence it leaves and the value it returns or the Empty it raises.
AbsReturn(s, value) == [seq |-> s, exc |-> "none", value |-> value]

AbsEmpty(s) == [seq |-> s, exc |-> "Empty", value |-> None]

AbsFirst(s) == IF s = << >> THEN AbsEmpty(s) ELSE AbsReturn(s, s[1])

AbsLast(s) == IF s = << >> THEN AbsEmpty(s) ELSE AbsReturn(s, s[Len(s)])

AbsInsertFirst(s, e) == AbsReturn(<< e >> \o s, None)

AbsInsertLast(s, e) == AbsReturn(s \o << e >>, None)

AbsDeleteFirst(s) ==
  IF s = << >> THEN AbsEmpty(s) ELSE AbsReturn(SubSeq(s, 2, Len(s)), s[1])

AbsDeleteLast(s) ==
  IF s = << >> THEN AbsEmpty(s) ELSE AbsReturn(SubSeq(s, 1, Len(s) - 1), s[Len(s)])

\* A call on Deque L with outcome o, the same call having result a on the
\* abstract sequence.  A call may run while its outcome stays within the
\* allocation bound.
DequeCall(L, o, a) ==
  /\ Len(o.heap) <= Len(InitHeap) + MaxDequeNodes
  /\ dq' = [heap |-> o.heap, size |-> o.size]
  /\ dqRet' = [exc |-> o.exc, value |-> o.value]
  /\ dqAbs' = [dqAbs EXCEPT ![L] = a.seq]
  /\ dqAbsRet' = [exc |-> a.exc, value |-> a.value]

DequeFirst(L) ==
  /\ DequeCall(L, Deque_first(dq, L), AbsFirst(dqAbs[L]))
  /\ UNCHANGED exceptDeque

DequeLast(L) ==
  /\ DequeCall(L, Deque_last(dq, L), AbsLast(dqAbs[L]))
  /\ UNCHANGED exceptDeque

InsertFirst(L, e) ==
  /\ DequeCall(L, insert_first(dq, L, e), AbsInsertFirst(dqAbs[L], e))
  /\ UNCHANGED exceptDeque

InsertLast(L, e) ==
  /\ DequeCall(L, insert_last(dq, L, e), AbsInsertLast(dqAbs[L], e))
  /\ UNCHANGED exceptDeque

DeleteFirst(L) ==
  /\ DequeCall(L, delete_first(dq, L), AbsDeleteFirst(dqAbs[L]))
  /\ UNCHANGED exceptDeque

DeleteLast(L) ==
  /\ DequeCall(L, delete_last(dq, L), AbsDeleteLast(dqAbs[L]))
  /\ UNCHANGED exceptDeque

\* _DoublyLinkedListBase.__init__ for the two Deques; nothing called yet.
DequeInit ==
  /\ dq = [heap |-> InitHeap, size |-> [L \in Lists |-> 0]]
  /\ dqRet = [exc |-> "none", value |-> None]
  /\ dqAbs = [L \in Lists |-> << >>]
  /\ dqAbsRet = [exc |-> "none", value |-> None]

\* ------------------------------------------- CircularQueue (07. Queues)

\* The largest capacity a CircularQueue is constructed with.
MaxCapacity == 3

\* The capacities passed to the constructors: negative ones, for which the
\* buffer [None] * capacity is empty, zero, and the positive ones.
Capacities == -2..MaxCapacity

\* Python's a % b for b # 0: the result has the sign of b.
PyMod(a, b) == IF b > 0 THEN a % b ELSE -((-a) % (-b))

\* Python's list index i on a list of n entries, as an index from 0; -1 when
\* i is out of range (an IndexError).
PyIndex(i, n) ==
  IF 0 <= i /\ i < n THEN i
  ELSE IF -n <= i /\ i < 0 THEN n + i
  ELSE -1

\* CircularQueue.__init__: data[i + 1] is self._data[i].
CircularQueue(capacity) ==
  [data |-> [i \in 1..(IF capacity > 0 THEN capacity ELSE 0) |-> None],
   size |-> 0, front |-> 0, capacity |-> capacity]

\* The outcome of a call that returns value and leaves queue Q.
QReturn(Q, value) == [q |-> Q, exc |-> "none", msg |-> "", value |-> value]

\* The outcome of a call that raises exc(msg) and leaves queue Q.
QRaise(Q, exc, msg) == [q |-> Q, exc |-> exc, msg |-> msg, value |-> None]

QueueEmptyMsg == "Queue is empty"

QueueFullMsg == "Queue is full"

\* CircularQueue.__len__
CircularQueue_len(Q) == Q.size

\* CircularQueue.is_empty
CircularQueue_is_empty(Q) == Q.size = 0

\* CircularQueue.is_full
CircularQueue_is_full(Q) == Q.size = Q.capacity

\* CircularQueue.first
CircularQueue_first(Q) ==
  IF CircularQueue_is_empty(Q)
  THEN QRaise(Q, "Empty", QueueEmptyMsg)
  ELSE LET i == PyIndex(Q.front, Len(Q.data))
       IN  IF i = -1
           THEN QRaise(Q, "IndexError", "list index out of range")
           ELSE QReturn(Q, Q.data[i + 1])

\* CircularQueue.dequeue
CircularQueue_dequeue(Q) ==
  IF CircularQueue_is_empty(Q)
  THEN QRaise(Q, "Empty", QueueEmptyMsg)
  ELSE LET i == PyIndex(Q.front, Len(Q.data))
       IN  IF i = -1
           THEN QRaise(Q, "IndexError", "list index out of range")
           ELSE QReturn([Q EXCEPT !.data[i + 1] = None,
                                  !.front = PyMod(Q.front + 1, Q.capacity),
                                  !.size = Q.size - 1],
                        Q.data[i + 1])

\* A mutant of enqueue: the next available index is counted from index 0,
\* not from the front.
CircularQueue_enqueue_ignores_front(Q, e) ==
  IF CircularQueue_is_full(Q)
  THEN QRaise(Q, "Full", QueueFullMsg)
  ELSE LET avail == PyMod(Q.size, Q.capacity)
           i == PyIndex(avail, Len(Q.data))
       IN  IF i = -1
           THEN QRaise(Q, "IndexError", "list assignment index out of range")
           ELSE QReturn([Q EXCEPT !.data[i + 1] = e, !.size = Q.size + 1], None)

\* CircularQueue.enqueue
CircularQueue_enqueue(Q, e) ==
  IF CircularQueue_is_full(Q)
  THEN QRaise(Q, "Full", QueueFullMsg)
  ELSE LET avail == PyMod(Q.front + Q.size, Q.capacity)
           i == PyIndex(avail, Len(Q.data))
       IN  IF i = -1
           THEN QRaise(Q, "IndexError", "list assignment index out of range")
           ELSE QReturn([Q EXCEPT !.data[i + 1] = e, !.size = Q.size + 1], None)

\* A call on the queue with outcome o, where the order of the enqueues makes
\* the elements still to be dequeued fifo and wants a successful call to
\* return the value want.
CircularQueueCall(o, fifo, want) ==
  /\ cq' = o.q
  /\ cqRet' = [exc |-> o.exc, value |-> o.value]
  /\ cqFifo' = IF o.exc = "none" THEN fifo ELSE cqFifo
  /\ cqWant' = IF o.exc = "none" THEN want ELSE None

\* The front element of sequence s, None for the empty sequence.
Oldest(s) == IF s = << >> THEN None ELSE Head(s)

\* The rest of sequence s, empty for the empty sequence.
Rest(s) == IF s = << >> THEN << >> ELSE Tail(s)

\* The queue as constructed with capacity c, nothing called yet.
CircularQueueFresh(c) ==
  /\ cq = CircularQueue(c)
  /\ cqRet = [exc |-> "none", value |-> None]
  /\ cqFifo = << >>
  /\ cqWant = None
  /\ cqWraps = [front |-> FALSE, avail |-> FALSE]

\* The client constructs a new queue, of capacity c, in place of the old one.
CircularQueueNew(c) ==
  /\ cq' = CircularQueue(c)
  /\ cqRet' = [exc |-> "none", value |-> None]
  /\ cqFifo' = << >>
  /\ cqWant' = None
  /\ cqWraps' = [front |-> FALSE, avail |-> FALSE]
  /\ UNCHANGED exceptCircularQueue

CircularQueueFirst ==
  /\ CircularQueueCall(CircularQueue_first(cq), cqFifo, Oldest(cqFifo))
  /\ UNCHANGED cqWraps
  /\ UNCHANGED exceptCircularQueue

CircularQueueDequeue ==
  /\ CircularQueueCall(CircularQueue_dequeue(cq), Rest(cqFifo), Oldest(cqFifo))
  /\ cqWraps' = IF CircularQueue_dequeue(cq).exc = "none" /\ cq.front + 1 >= cq.capacity
                THEN [cqWraps EXCEPT !.front = TRUE] ELSE cqWraps
  /\ UNCHANGED exceptCircularQueue

CircularQueueEnqueue(e) ==
  /\ CircularQueueCall(CircularQueue_enqueue(cq, e), Append(cqFifo, e), None)
  /\ cqWraps' = IF CircularQueue_enqueue(cq, e).exc = "none"
                   /\ cq.front + cq.size >= cq.capacity
                THEN [cqWraps EXCEPT !.avail = TRUE] ELSE cqWraps
  /\ UNCHANGED exceptCircularQueue

\* The queue the client starts with: CircularQueue(MaxCapacity).
CircularQueueInit == CircularQueueFresh(MaxCapacity)

\* ------------------------------------------- CircularDeque (07. Queues)

\* CircularDeque.__init__: data[i + 1] is self._data[i].
CircularDeque(capacity) ==
  [data |-> [i \in 1..(IF capacity > 0 THEN capacity ELSE 0) |-> None],
   size |-> 0, front |-> 0, capacity |-> capacity]

DequeEmptyMsg == "Deque is empty"

DequeFullMsg == "Deque is full"

\* CircularDeque.__len__
CircularDeque_len(Q) == Q.size

\* CircularDeque.is_empty
CircularDeque_is_empty(Q) == Q.size = 0

\* CircularDeque.is_full
CircularDeque_is_full(Q) == Q.size = Q.capacity

\* CircularDeque.first
CircularDeque_first(Q) ==
  IF CircularDeque_is_empty(Q)
  THEN QRaise(Q, "Empty", DequeEmptyMsg)
  ELSE LET i == PyIndex(Q.front, Len(Q.data))
       IN  IF i = -1
           THEN QRaise(Q, "IndexError", "list index out of range")
           ELSE QReturn(Q, Q.data[i + 1])

\* CircularDeque.last
CircularDeque_last(Q) ==
  IF CircularDeque_is_empty(Q)
  THEN QRaise(Q, "Empty", DequeEmptyMsg)
  ELSE LET rear == PyMod(Q.front + Q.size - 1, Q.capacity)
           i == PyIndex(rear, Len(Q.data))
       IN  IF i = -1
           THEN QRaise(Q, "IndexError", "list index out of range")
           ELSE QReturn(Q, Q.data[i + 1])

\* A mutant of enqueue_first: the element is stored at the front index
\* before the index moves left.
CircularDeque_enqueue_first_stores_then_moves(Q, e) ==
  IF CircularDeque_is_full(Q)
  THEN QRaise(Q, "Full", DequeFullMsg)
  ELSE LET i == PyIndex(Q.front, Len(Q.data))
       IN  IF i = -1
           THEN QRaise(Q, "IndexError", "list assignment index out of range")
           ELSE QReturn([Q EXCEPT !.data[i + 1] = e,
                                  !.front = PyMod(Q.front - 1, Q.capacity),
                                  !.size = Q.size + 1], None)

\* CircularDeque.enqueue_first: the front index has moved when the store
\* into the buffer raises IndexError.
CircularDeque_enqueue_first(Q, e) ==
  IF CircularDeque_is_full(Q)
  THEN QRaise(Q, "Full", DequeFullMsg)
  ELSE LET front == PyMod(Q.front - 1, Q.capacity)
           i == PyIndex(front, Len(Q.data))
       IN  IF i = -1
           THEN QRaise([Q EXCEPT !.front = front],
                       "IndexError", "list assignment index out of range")
           ELSE QReturn([Q EXCEPT !.front = front, !.data[i + 1] = e,
                                  !.size = Q.size + 1], None)

\* CircularDeque.enqueue_last
CircularDeque_enqueue_last(Q, e) ==
  IF CircularDeque_is_full(Q)
  THEN QRaise(Q, "Full", DequeFullMsg)
  ELSE LET avail == PyMod(Q.front + Q.size, Q.capacity)
           i == PyIndex(avail, Len(Q.data))
       IN  IF i = -1
           THEN QRaise(Q, "IndexError", "list assignment index out of range")
           ELSE QReturn([Q EXCEPT !.data[i + 1] = e, !.size = Q.size + 1], None)

\* CircularDeque.dequeue_first
CircularDeque_dequeue_first(Q) ==
  IF CircularDeque_is_empty(Q)
  THEN QRaise(Q, "Empty", DequeEmptyMsg)
  ELSE LET i == PyIndex(Q.front, Len(Q.data))
       IN  IF i = -1
           THEN QRaise(Q, "IndexError", "list index out of range")
           ELSE QReturn([Q EXCEPT !.data[i + 1] = None,
                                  !.front = PyMod(Q.front + 1, Q.capacity),
                                  !.size = Q.size - 1],
                        Q.data[i + 1])

\* CircularDeque.dequeue_last
CircularDeque_dequeue_last(Q) ==
  IF CircularDeque_is_empty(Q)
  THEN QRaise(Q, "Empty", DequeEmptyMsg)
  ELSE LET rear == PyMod(Q.front + Q.size - 1, Q.capacity)
           i == PyIndex(rear, Len(Q.data))
       IN  IF i = -1
           THEN QRaise(Q, "IndexError", "list index out of range")
           ELSE QReturn([Q EXCEPT !.data[i + 1] = None, !.size = Q.size - 1],
                        Q.data[i + 1])

\* The abstract double-ended sequence bounded by c refuses an element when
\* it holds c elements or more.
AbsFull(s) == [seq |-> s, exc |-> "Full", value |-> None]

AbsEnqueueFirst(s, c, e) == IF Len(s) >= c THEN AbsFull(s) ELSE AbsInsertFirst(s, e)

AbsEnqueueLast(s, c, e) == IF Len(s) >= c THEN AbsFull(s) ELSE AbsInsertLast(s, e)

\* A call on the deque with outcome o, the same call having result a on the
\* abstract sequence.
CircularDequeCall(o, a) ==
  /\ cd' = o.q
  /\ cdRet' = [exc |-> o.exc, value |-> o.value]
  /\ cdAbs' = a.seq
  /\ cdAbsRet' = [exc |-> a.exc, value |-> a.value]

\* The client constructs a new deque, of capacity c, in place of the old one.
CircularDequeNew(c) ==
  /\ cd' = CircularDeque(c)
  /\ cdRet' = [exc |-> "none", value |-> None]
  /\ cdAbs' = << >>
  /\ cdAbsRet' = [exc |-> "none", value |-> None]
  /\ cdWraps' = [front |-> FALSE, rear |-> FALSE]
  /\ UNCHANGED exceptCircularDeque

CircularDequeFirst ==
  /\ CircularDequeCall(CircularDeque_first(cd), AbsFirst(cdAbs))
  /\ UNCHANGED cdWraps
  /\ UNCHANGED exceptCircularDeque

CircularDequeLast ==
  /\ CircularDequeCall(CircularDeque_last(cd), AbsLast(cdAbs))
  /\ UNCHANGED cdWraps
  /\ UNCHANGED exceptCircularDeque

CircularDequeEnqueueFirst(e) ==
  /\ CircularDequeCall(CircularDeque_enqueue_first(cd, e),
                       AbsEnqueueFirst(cdAbs, cd.capacity, e))
  /\ cdWraps' = IF CircularDeque_enqueue_first(cd, e).exc = "none" /\ cd.front = 0
                THEN [cdWraps EXCEPT !.front = TRUE] ELSE cdWraps
  /\ UNCHANGED exceptCircularDeque

CircularDequeEnqueueLast(e) ==
  /\ CircularDequeCall(CircularDeque_enqueue_last(cd, e),
                       AbsEnqueueLast(cdAbs, cd.capacity, e))
  /\ cdWraps' = IF CircularDeque_enqueue_last(cd, e).exc = "none"
                   /\ cd.front + cd.size >= cd.capacity
                THEN [cdWraps EXCEPT !.rear = TRUE] ELSE cdWraps
  /\ UNCHANGED exceptCircularDeque

CircularDequeDequeueFirst ==
  /\ CircularDequeCall(CircularDeque_dequeue_first(cd), AbsDeleteFirst(cdAbs))
  /\ UNCHANGED cdWraps
  /\ UNCHANGED exceptCircularDeque

CircularDequeDequeueLast ==
  /\ CircularDequeCall(CircularDeque_dequeue_last(cd), AbsDeleteLast(cdAbs))
  /\ UNCHANGED cdWraps
  /\ UNCHANGED exceptCircularDeque

\* The deque the client starts with: CircularDeque(MaxCapacity).
CircularDequeInit ==
  /\ cd = CircularDeque(MaxCapacity)
  /\ cdRet = [exc |-> "none", value |-> None]
  /\ cdAbs = << >>
  /\ cdAbsRet = [exc |-> "none", value |-> None]
  /\ cdWraps = [front |-> FALSE, rear |-> FALSE]

\* ------------------------------------------------ ArrayQueue (07. Queues)

\* ArrayQueue.DEFAULT_CAPACITY
DEFAULT_CAPACITY == 10

\* The number of enqueue calls the client makes: enough to fill the buffer,
\* dequeue, refill it across its end and enqueue once more.
MaxEnqueues == 14

\* ArrayQueue.__init__: data[i + 1] is self._data[i].
ArrayQueue == [data |-> [i \in 1..DEFAULT_CAPACITY |-> None], size |-> 0, front |-> 0]

\* ArrayQueue.__len__
ArrayQueue_len(Q) == Q.size

\* ArrayQueue.is_empty
ArrayQueue_is_empty(Q) == Q.size = 0

\* ArrayQueue.first
ArrayQueue_first(Q) ==
  IF ArrayQueue_is_empty(Q)
  THEN QRaise(Q, "Empty", QueueEmptyMsg)
  ELSE QReturn(Q, Q.data[Q.front + 1])

\* ArrayQueue.dequeue
ArrayQueue_dequeue(Q) ==
  IF ArrayQueue_is_empty(Q)
  THEN QRaise(Q, "Empty", QueueEmptyMsg)
  ELSE QReturn([Q EXCEPT !.data[Q.front + 1] = None,
                         !.front = PyMod(Q.front + 1, Len(Q.data)),
                         !.size = Q.size - 1],
               Q.data[Q.front + 1])

\* A mutant of _resize: the elements are copied from index 0 on, not from
\* the front index.
_resize_copies_from_zero(Q, new_capacity) ==
  [Q EXCEPT !.data = [k \in 1..new_capacity |->
                        IF k <= Q.size THEN Q.data[PyMod(k - 1, Len(Q.data)) + 1]
                        ELSE None],
            !.front = 0]

\* ArrayQueue._resize: cell k of the new list is the cell the walk from the
\* front index reaches after k steps around the old list.
_resize(Q, new_capacity) ==
  [Q EXCEPT !.data = [k \in 1..new_capacity |->
                        IF k <= Q.size
                        THEN Q.data[PyMod(Q.front + k - 1, Len(Q.data)) + 1]
                        ELSE None],
            !.front = 0]

\* ArrayQueue.enqueue
ArrayQueue_enqueue(Q, e) ==
  LET R == IF Q.size = Len(Q.data) THEN _resize(Q, 2 * Len(Q.data)) ELSE Q
      avail == PyMod(R.front + R.size, Len(R.data))
  IN  QReturn([R EXCEPT !.data[avail + 1] = e, !.size = R.size + 1], None)

\* A call on the queue with outcome o, where the order of the enqueues makes
\* the elements still to be dequeued fifo and wants a successful call to
\* return the value want.
ArrayQueueCall(o, fifo, want) ==
  /\ aq' = o.q
  /\ aqRet' = [exc |-> o.exc, value |-> o.value]
  /\ aqFifo' = IF o.exc = "none" THEN fifo ELSE aqFifo
  /\ aqWant' = IF o.exc = "none" THEN want ELSE None

ArrayQueueFirst ==
  /\ ArrayQueueCall(ArrayQueue_first(aq), aqFifo, Oldest(aqFifo))
  /\ UNCHANGED <<aqCalls, aqMoved>>
  /\ UNCHANGED exceptArrayQueue

ArrayQueueDequeue ==
  /\ ArrayQueueCall(ArrayQueue_dequeue(aq), Rest(aqFifo), Oldest(aqFifo))
  /\ UNCHANGED <<aqCalls, aqMoved>>
  /\ UNCHANGED exceptArrayQueue

\* The client enqueues a new element with each call: the number of the call.
ArrayQueueEnqueue ==
  /\ aqCalls < MaxEnqueues
  /\ ArrayQueueCall(ArrayQueue_enqueue(aq, aqCalls + 1), Append(aqFifo, aqCalls + 1), None)
  /\ aqCalls' = aqCalls + 1
  /\ aqMoved' = IF aq.size = Len(aq.data)
                THEN [resized |-> TRUE, front |-> aq.front] ELSE aqMoved
  /\ UNCHANGED exceptArrayQueue

\* The queue the client starts with: ArrayQueue().
ArrayQueueInit ==
  /\ aq = ArrayQueue
  /\ aqRet = [exc |-> "none", value |-> None]
  /\ aqFifo = << >>
  /\ aqWant = None
  /\ aqCalls = 0
  /\ aqMoved = [resized |-> FALSE, front |-> 0]

\* ------------------------------------------- LinkedQueue (08. Linked Lists)

\* The nodes a linked container allocates between two constructions.
MaxLinkedNodes == 4

\* The longest list of items passed to a constructor.
MaxItems == 2

\* The lists of items passed to the constructors; the empty one also stands
\* for items = None.
Items == UNION {[1..n -> Elements] : n \in 0..MaxItems}

\* The counts passed to the batch removals.
Counts == -1..(MaxLinkedNodes + 1)

\* LinkedQueue.Node.__init__
LinkedQueue_Node(e, next_node) == [element |-> e, next |-> next_node]

\* The outcome of a batch removal that returns the list values.
QReturnMany(Q, values) == [q |-> Q, exc |-> "none", msg |-> "", value |-> values]

\* Python's AttributeError for an attribute of None.
NoneAttribute(Q, attr) ==
  QRaise(Q, "AttributeError", "'NoneType' object has no attribute '" \o attr \o "'")

CannotDequeueMsg == "Cannot dequeue from empty queue"

\* LinkedQueue.__len__
LinkedQueue_len(Q) == Q.size

\* LinkedQueue.is_empty
LinkedQueue_is_empty(Q) == Q.size = 0

\* A mutant of enqueue: the new node is linked in front of the head.
LinkedQueue_enqueue_at_head(Q, e) ==
  LET newest == Len(Q.nodes) + 1
      nodes == Append(Q.nodes, LinkedQueue_Node(e, Q.head))
  IN  QReturn([nodes |-> nodes, head |-> newest,
               tail |-> IF LinkedQueue_is_empty(Q) THEN newest ELSE Q.tail,
               size |-> Q.size + 1], None)

\* LinkedQueue.enqueue: the new node is nodes[newest].
LinkedQueue_enqueue(Q, e) ==
  LET newest == Len(Q.nodes) + 1
      nodes == Append(Q.nodes, LinkedQueue_Node(e, None))
  IN  IF LinkedQueue_is_empty(Q)
      THEN QReturn([nodes |-> nodes, head |-> newest, tail |-> newest,
                    size |-> Q.size + 1], None)
      ELSE IF Q.tail = None
      THEN NoneAttribute([Q EXCEPT !.nodes = nodes], "_next")
      ELSE QReturn([nodes |-> [nodes EXCEPT ![Q.tail].next = newest],
                    head |-> Q.head, tail |-> newest, size |-> Q.size + 1], None)

\* LinkedQueue.dequeue
LinkedQueue_dequeue(Q) ==
  IF LinkedQueue_is_empty(Q)
  THEN QRaise(Q, "Empty", CannotDequeueMsg)
  ELSE IF Q.head = None
  THEN NoneAttribute(Q, "element")
  ELSE LET R == [Q EXCEPT !.head = Q.nodes[Q.head].next, !.size = Q.size - 1]
       IN  QReturn(IF LinkedQueue_is_empty(R) THEN [R EXCEPT !.tail = None] ELSE R,
                   Q.nodes[Q.head].element)

\* LinkedQueue.first
LinkedQueue_first(Q) ==
  IF LinkedQueue_is_empty(Q)
  THEN QRaise(Q, "Empty", QueueEmptyMsg)
  ELSE IF Q.head = None
  THEN NoneAttribute(Q, "element")
  ELSE QReturn(Q, Q.nodes[Q.head].element)

\* LinkedQueue.last
LinkedQueue_last(Q) ==
  IF LinkedQueue_is_empty(Q)
  THEN QRaise(Q, "Empty", QueueEmptyMsg)
  ELSE IF Q.tail = None
  THEN NoneAttribute(Q, "element")
  ELSE QReturn(Q, Q.nodes[Q.tail].element)

\* The loop of __init__ and enqueue_many: enqueue(item) for each item, up
\* to the first call that raises.
RECURSIVE LinkedQueue_enqueue_each(_, _)
LinkedQueue_enqueue_each(Q, items) ==
  IF items = << >>
  THEN QReturn(Q, None)
  ELSE LET o == LinkedQueue_enqueue(Q, Head(items))
       IN  IF o.exc # "none" THEN o ELSE LinkedQueue_enqueue_each(o.q, Tail(items))

\* LinkedQueue.__init__
LinkedQueue(items) ==
  LinkedQueue_enqueue_each([nodes |-> << >>, head |-> None, tail |-> None, size |-> 0],
                           items).q

\* The loop of dequeue_many: n times result.append(self.dequeue()), up to
\* the first call that raises.
RECURSIVE LinkedQueue_dequeue_each(_, _, _)
LinkedQueue_dequeue_each(Q, n, result) ==
  IF n <= 0
  THEN QReturnMany(Q, result)
  ELSE LET o == LinkedQueue_dequeue(Q)
       IN  IF o.exc # "none" THEN o
           ELSE LinkedQueue_dequeue_each(o.q, n - 1, Append(result, o.value))

\* LinkedQueue.dequeue_many
LinkedQueue_dequeue_many(Q, n) ==
  IF LinkedQueue_is_empty(Q)
  THEN QRaise(Q, "Empty", CannotDequeueMsg)
  ELSE IF n > Q.size
  THEN QRaise(Q, "ValueError",
              "Cannot dequeue " \o ToString(n) \o " elements from queue of size "
                \o ToString(Q.size))
  ELSE IF n < 0
  THEN QRaise(Q, "ValueError", "Number of elements to dequeue must be non-negative")
  ELSE LinkedQueue_dequeue_each(Q, n, << >>)

\* LinkedQueue.__iter__: the elements from node on, following next to None.
RECURSIVE LinkedQueue_iter(_, _, _)
LinkedQueue_iter(Q, node, fuel) ==
  IF node = None \/ fuel = 0
  THEN << >>
  ELSE << Q.nodes[node].element >> \o LinkedQueue_iter(Q, Q.nodes[node].next, fuel - 1)

\* list(queue)
LinkedQueue_list(Q) == LinkedQueue_iter(Q, Q.head, Len(Q.nodes) + 1)

\* reversed(items), as a list.
reversed(items) == [i \in 1..Len(items) |-> items[Len(items) + 1 - i]]

\* LinkedQueue.enqueue_many.  (The items passed are lists: the TypeError for
\* an argument that is not iterable is not raised.)
LinkedQueue_enqueue_many(Q, items) == LinkedQueue_enqueue_each(Q, items)

\* LinkedQueue.clear: the nodes are left as they are, for garbage collection.
LinkedQueue_clear(Q) ==
  QReturn([Q EXCEPT !.head = None, !.tail = None, !.size = 0], None)

\* LinkedQueue.reverse: the queue is cleared and rebuilt on new nodes.
LinkedQueue_reverse(Q) ==
  IF Q.size <= 1
  THEN QReturn(Q, None)
  ELSE LinkedQueue_enqueue_each(LinkedQueue_clear(Q).q, reversed(LinkedQueue_list(Q)))

\* A call on the queue with outcome o, where the order of the enqueues makes
\* the elements still to be dequeued fifo and wants a successful call to
\* return the value want; a batch removal returns a list.
LinkedQueueCall(o, fifo, want, batch) ==
  /\ Len(o.q.nodes) <= MaxLinkedNodes
  /\ lq' = o.q
  /\ lqRet' = [exc |-> o.exc,
               value |-> IF batch THEN None ELSE o.value,
               batch |-> IF batch /\ o.exc = "none" THEN o.value ELSE << >>]
  /\ lqFifo' = IF o.exc = "none" THEN fifo ELSE lqFifo
  /\ lqWant' = IF o.exc = "none" THEN want ELSE None

\* The client constructs a new queue from items, in place of the old one.
LinkedQueueDoNew(items) ==
  /\ lq' = LinkedQueue(items)
  /\ lqRet' = [exc |-> "none", value |-> None, batch |-> << >>]
  /\ lqFifo' = items
  /\ lqWant' = None
  /\ lqPast' = [built |-> items, emptied |-> FALSE, refilled |-> FALSE]

LinkedQueueDoFirst ==
  /\ LinkedQueueCall(LinkedQueue_first(lq), lqFifo, Oldest(lqFifo), FALSE)
  /\ UNCHANGED lqPast

LinkedQueueDoLast ==
  /\ LinkedQueueCall(LinkedQueue_last(lq), lqFifo,
                     IF lqFifo = << >> THEN None ELSE lqFifo[Len(lqFifo)], FALSE)
  /\ UNCHANGED lqPast

LinkedQueueDoEnqueue(e) ==
  /\ LinkedQueueCall(LinkedQueue_enqueue(lq, e), Append(lqFifo, e), None, FALSE)
  /\ lqPast' = IF lqPast.emptied /\ LinkedQueue_is_empty(lq)
               THEN [lqPast EXCEPT !.refilled = TRUE] ELSE lqPast

LinkedQueueDoDequeue ==
  /\ LinkedQueueCall(LinkedQueue_dequeue(lq), Rest(lqFifo), Oldest(lqFifo), FALSE)
  /\ lqPast' = IF LinkedQueue_len(lq) = 1
               THEN [lqPast EXCEPT !.emptied = TRUE] ELSE lqPast

LinkedQueueDoDequeueMany(n) ==
  /\ LinkedQueueCall(LinkedQueue_dequeue_many(lq, n),
                     SubSeq(lqFifo, n + 1, Len(lqFifo)), None, TRUE)
  /\ UNCHANGED lqPast

LinkedQueueDoEnqueueMany(items) ==
  /\ LinkedQueueCall(LinkedQueue_enqueue_many(lq, items), lqFifo \o items, None, FALSE)
  /\ UNCHANGED lqPast

LinkedQueueDoReverse ==
  /\ LinkedQueueCall(LinkedQueue_reverse(lq), reversed(lqFifo), None, FALSE)
  /\ UNCHANGED lqPast

LinkedQueueDoClear ==
  /\ LinkedQueueCall(LinkedQueue_clear(lq), << >>, None, FALSE)
  /\ UNCHANGED lqPast

LinkedQueueNew(items) ==
  /\ LinkedQueueDoNew(items)
  /\ UNCHANGED exceptLinkedQueue

LinkedQueueFirst ==
  /\ LinkedQueueDoFirst
  /\ UNCHANGED exceptLinkedQueue

LinkedQueueLast ==
  /\ LinkedQueueDoLast
  /\ UNCHANGED exceptLinkedQueue

LinkedQueueEnqueue(e) ==
  /\ LinkedQueueDoEnqueue(e)
  /\ UNCHANGED exceptLinkedQueue

LinkedQueueDequeue ==
  /\ LinkedQueueDoDequeue
  /\ UNCHANGED exceptLinkedQueue

LinkedQueueDequeueMany(n) ==
  /\ LinkedQueueDoDequeueMany(n)
  /\ UNCHANGED exceptLinkedQueue

LinkedQueueEnqueueMany(items) ==
  /\ LinkedQueueDoEnqueueMany(items)
  /\ UNCHANGED exceptLinkedQueue

LinkedQueueReverse ==
  /\ LinkedQueueDoReverse
  /\ UNCHANGED exceptLinkedQueue

LinkedQueueClear ==
  /\ LinkedQueueDoClear
  /\ UNCHANGED exceptLinkedQueue

\* The queue the client starts with: LinkedQueue().
LinkedQueueInit ==
  /\ lq = LinkedQueue(<< >>)
  /\ lqRet = [exc |-> "none", value |-> None, batch |-> << >>]
  /\ lqFifo = << >>
  /\ lqWant = None
  /\ lqPast = [built |-> << >>, emptied |-> FALSE, refilled |-> FALSE]

\* ------------------------------ LinkedListCircularQueue (08. Linked Lists)

\* LinkedListCircularQueue.Node.__init__
LinkedListCircularQueue_Node(e, next_node) == [element |-> e, next |-> next_node]

\* LinkedListCircularQueue.__len__
LinkedListCircularQueue_len(Q) == Q.size

\* LinkedListCircularQueue.is_empty
LinkedListCircularQueue_is_empty(Q) == Q.size = 0

\* LinkedListCircularQueue.first
LinkedListCircularQueue_first(Q) ==
  IF LinkedListCircularQueue_is_empty(Q)
  THEN QRaise(Q, "Empty", QueueEmptyMsg)
  ELSE IF Q.tail = None
  THEN NoneAttribute(Q, "next")
  ELSE IF Q.nodes[Q.tail].next = None
  THEN NoneAttribute(Q, "element")
  ELSE QReturn(Q, Q.nodes[Q.nodes[Q.tail].next].element)

\* LinkedListCircularQueue.last
LinkedListCircularQueue_last(Q) ==
  IF LinkedListCircularQueue_is_empty(Q)
  THEN QRaise(Q, "Empty", QueueEmptyMsg)
  ELSE IF Q.tail = None
  THEN NoneAttribute(Q, "element")
  ELSE QReturn(Q, Q.nodes[Q.tail].element)

\* LinkedListCircularQueue.enqueue: the new node is nodes[newest].
LinkedListCircularQueue_enqueue(Q, e) ==
  LET newest == Len(Q.nodes) + 1
      nodes == Append(Q.nodes, LinkedListCircularQueue_Node(e, None))
  IN  IF LinkedListCircularQueue_is_empty(Q)
      THEN QReturn([nodes |-> [nodes EXCEPT ![newest].next = newest],
                    tail |-> newest, size |-> Q.size + 1], None)
      ELSE IF Q.tail = None
      THEN NoneAttribute([Q EXCEPT !.nodes = nodes], "next")
      ELSE QReturn([nodes |-> [nodes EXCEPT ![newest].next = nodes[Q.tail].next,
                                            ![Q.tail].next = newest],
                    tail |-> newest, size |-> Q.size + 1], None)

\* LinkedListCircularQueue.dequeue
LinkedListCircularQueue_dequeue(Q) ==
  IF LinkedListCircularQueue_is_empty(Q)
  THEN QRaise(Q, "Empty", CannotDequeueMsg)
  ELSE IF Q.tail = None
  THEN NoneAttribute(Q, "next")
  ELSE LET old_head == Q.nodes[Q.tail].next
       IN  IF old_head = None
           THEN NoneAttribute(Q, "element")
           ELSE QReturn(IF Q.size = 1
                        THEN [Q EXCEPT !.tail = None, !.size = Q.size - 1]
                        ELSE [Q EXCEPT !.nodes[Q.tail].next = Q.nodes[old_head].next,
                                       !.size = Q.size - 1],
                        Q.nodes[old_head].element)

\* The loop of __init__ and enqueue_many: enqueue(item) for each item, up
\* to the first call that raises.
RECURSIVE LinkedListCircularQueue_enqueue_each(_, _)
LinkedListCircularQueue_enqueue_each(Q, items) ==
  IF items = << >>
  THEN QReturn(Q, None)
  ELSE LET o == LinkedListCircularQueue_enqueue(Q, Head(items))
       IN  IF o.exc # "none" THEN o
           ELSE LinkedListCircularQueue_enqueue_each(o.q, Tail(items))

\* LinkedListCircularQueue.__init__
LinkedListCircularQueue(items) ==
  LinkedListCircularQueue_enqueue_each([nodes |-> << >>, tail |-> None, size |-> 0],
                                       items).q

\* The loop of dequeue_many: n times result.append(self.dequeue()), up to
\* the first call that raises.
RECURSIVE LinkedListCircularQueue_dequeue_each(_, _, _)
LinkedListCircularQueue_dequeue_each(Q, n, result) ==
  IF n <= 0
  THEN QReturnMany(Q, result)
  ELSE LET o == LinkedListCircularQueue_dequeue(Q)
       IN  IF o.exc # "none" THEN o
           ELSE LinkedListCircularQueue_dequeue_each(o.q, n - 1, Append(result, o.value))

\* LinkedListCircularQueue.dequeue_many
LinkedListCircularQueue_dequeue_many(Q, n) ==
  IF LinkedListCircularQueue_is_empty(Q)
  THEN QRaise(Q, "Empty", CannotDequeueMsg)
  ELSE IF n > Q.size
  THEN QRaise(Q, "ValueError",
              "Cannot dequeue " \o ToString(n) \o " elements from queue of size "
                \o ToString(Q.size))
  ELSE IF n < 0
  THEN QRaise(Q, "ValueError", "Number of elements to dequeue must be non-negative")
  ELSE LinkedListCircularQueue_dequeue_each(Q, n, << >>)

\* A mutant of rotate: the tail reference moves two nodes on.
LinkedListCircularQueue_rotate_two_nodes(Q) ==
  IF Q.size > 1
  THEN QReturn([Q EXCEPT !.tail = Q.nodes[Q.nodes[Q.tail].next].next], None)
  ELSE QReturn(Q, None)

\* LinkedListCircularQueue.rotate
LinkedListCircularQueue_rotate(Q) ==
  IF Q.size > 1
  THEN IF Q.tail = None
       THEN NoneAttribute(Q, "next")
       ELSE QReturn([Q EXCEPT !.tail = Q.nodes[Q.tail].next], None)
  ELSE QReturn(Q, None)

\* The loop of LinkedListCircularQueue.__iter__ from node current on, run to
\* its end: the elements up to and including the tail's.  The loop tests only
\* for the tail: a None link is an AttributeError at current.element.  (A
\* ring that does not hold the tail would be walked for ever; fuel, the number
\* of nodes and one, ends the walk.)
RECURSIVE LinkedListCircularQueue_iter(_, _, _)
LinkedListCircularQueue_iter(Q, current, fuel) ==
  IF current = None
  THEN NoneAttribute(Q, "element")
  ELSE IF current = Q.tail \/ fuel = 0
  THEN QReturnMany(Q, << Q.nodes[current].element >>)
  ELSE LET o == LinkedListCircularQueue_iter(Q, Q.nodes[current].next, fuel - 1)
       IN  IF o.exc # "none" THEN o
           ELSE QReturnMany(Q, << Q.nodes[current].element >> \o o.value)

\* list(queue): __iter__ returns at once on an empty queue and starts from
\* _tail.next otherwise.
LinkedListCircularQueue_list(Q) ==
  IF LinkedListCircularQueue_is_empty(Q)
  THEN QReturnMany(Q, << >>)
  ELSE IF Q.tail = None
  THEN NoneAttribute(Q, "next")
  ELSE LinkedListCircularQueue_iter(Q, Q.nodes[Q.tail].next, Len(Q.nodes) + 1)

\* LinkedListCircularQueue.enqueue_many.  (The items passed are lists: the
\* TypeError for an argument that is not iterable is not raised.)
LinkedListCircularQueue_enqueue_many(Q, items) ==
  LinkedListCircularQueue_enqueue_each(Q, items)

\* LinkedListCircularQueue.clear: the nodes are left linked as they are.
LinkedListCircularQueue_clear(Q) == QReturn([Q EXCEPT !.tail = None, !.size = 0], None)

\* LinkedListCircularQueue.reverse: the queue is cleared and rebuilt on new
\* nodes.
LinkedListCircularQueue_reverse(Q) ==
  IF Q.size <= 1
  THEN QReturn(Q, None)
  ELSE LET items == LinkedListCircularQueue_list(Q)
       IN  IF items.exc # "none" THEN items
           ELSE LinkedListCircularQueue_enqueue_each(LinkedListCircularQueue_clear(Q).q,
                                                     reversed(items.value))

\* Sequence s with its first element moved to the end.
Rotation(s) == IF s = << >> THEN s ELSE Tail(s) \o << Head(s) >>

\* A call on the queue with outcome o, where the calls so far make the
\* front-to-back order fifo and want a successful call to return the value
\* want; a batch removal returns a list.
LinkedCircularQueueCall(o, fifo, want, batch) ==
  /\ Len(o.q.nodes) <= MaxLinkedNodes
  /\ lcq' = o.q
  /\ lcqRet' = [exc |-> o.exc,
                value |-> IF batch THEN None ELSE o.value,
                batch |-> IF batch /\ o.exc = "none" THEN o.value ELSE << >>]
  /\ lcqFifo' = IF o.exc = "none" THEN fifo ELSE lcqFifo
  /\ lcqWant' = IF o.exc = "none" THEN want ELSE None

\* The client constructs a new queue from items, in place of the old one.
LinkedCircularQueueDoNew(items) ==
  /\ lcq' = LinkedListCircularQueue(items)
  /\ lcqRet' = [exc |-> "none", value |-> None, batch |-> << >>]
  /\ lcqFifo' = items
  /\ lcqWant' = None
  /\ lcqTurns' = 0

LinkedCircularQueueDoFirst ==
  /\ LinkedCircularQueueCall(LinkedListCircularQueue_first(lcq), lcqFifo,
                             Oldest(lcqFifo), FALSE)
  /\ lcqTurns' = 0

LinkedCircularQueueDoLast ==
  /\ LinkedCircularQueueCall(LinkedListCircularQueue_last(lcq), lcqFifo,
                             IF lcqFifo = << >> THEN None ELSE lcqFifo[Len(lcqFifo)],
                             FALSE)
  /\ lcqTurns' = 0

LinkedCircularQueueDoEnqueue(e) ==
  /\ LinkedCircularQueueCall(LinkedListCircularQueue_enqueue(lcq, e),
                             Append(lcqFifo, e), None, FALSE)
  /\ lcqTurns' = 0

LinkedCircularQueueDoDequeue ==
  /\ LinkedCircularQueueCall(LinkedListCircularQueue_dequeue(lcq), Rest(lcqFifo),
                             Oldest(lcqFifo), FALSE)
  /\ lcqTurns' = 0

LinkedCircularQueueDoDequeueMany(n) ==
  /\ LinkedCircularQueueCall(LinkedListCircularQueue_dequeue_many(lcq, n),
                             SubSeq(lcqFifo, n + 1, Len(lcqFifo)), None, TRUE)
  /\ lcqTurns' = 0

\* rotate(); the count of turns starts again when a full round is made.
LinkedCircularQueueDoRotate ==
  /\ LinkedCircularQueueCall(LinkedListCircularQueue_rotate(lcq),
                             Rotation(lcqFifo), None, FALSE)
  /\ lcqTurns' = IF lcqTurns + 1 >= LinkedListCircularQueue_len(lcq) THEN 0
                 ELSE lcqTurns + 1

LinkedCircularQueueDoEnqueueMany(items) ==
  /\ LinkedCircularQueueCall(LinkedListCircularQueue_enqueue_many(lcq, items),
                             lcqFifo \o items, None, FALSE)
  /\ lcqTurns' = 0

LinkedCircularQueueDoReverse ==
  /\ LinkedCircularQueueCall(LinkedListCircularQueue_reverse(lcq), reversed(lcqFifo),
                             None, FALSE)
  /\ lcqTurns' = 0

LinkedCircularQueueDoClear ==
  /\ LinkedCircularQueueCall(LinkedListCircularQueue_clear(lcq), << >>, None, FALSE)
  /\ lcqTurns' = 0

LinkedCircularQueueNew(items) ==
  /\ LinkedCircularQueueDoNew(items)
  /\ UNCHANGED exceptLinkedCircularQueue

LinkedCircularQueueFirst ==
  /\ LinkedCircularQueueDoFirst
  /\ UNCHANGED exceptLinkedCircularQueue

LinkedCircularQueueLast ==
  /\ LinkedCircularQueueDoLast
  /\ UNCHANGED exceptLinkedCircularQueue

LinkedCircularQueueEnqueue(e) ==
  /\ LinkedCircularQueueDoEnqueue(e)
  /\ UNCHANGED exceptLinkedCircularQueue

LinkedCircularQueueDequeue ==
  /\ LinkedCircularQueueDoDequeue
  /\ UNCHANGED exceptLinkedCircularQueue

LinkedCircularQueueDequeueMany(n) ==
  /\ LinkedCircularQueueDoDequeueMany(n)
  /\ UNCHANGED exceptLinkedCircularQueue

LinkedCircularQueueRotate ==
  /\ LinkedCircularQueueDoRotate
  /\ UNCHANGED exceptLinkedCircularQueue

LinkedCircularQueueEnqueueMany(items) ==
  /\ LinkedCircularQueueDoEnqueueMany(items)
  /\ UNCHANGED exceptLinkedCircularQueue

LinkedCircularQueueReverse ==
  /\ LinkedCircularQueueDoReverse
  /\ UNCHANGED exceptLinkedCircularQueue

LinkedCircularQueueClear ==
  /\ LinkedCircularQueueDoClear
  /\ UNCHANGED exceptLinkedCircularQueue

\* The queue the client starts with: LinkedListCircularQueue().
LinkedCircularQueueInit ==
  /\ lcq = LinkedListCircularQueue(<< >>)
  /\ lcqRet = [exc |-> "none", value |-> None, batch |-> << >>]
  /\ lcqFifo = << >>
  /\ lcqWant = None
  /\ lcqTurns = 0

\* --------------------------------------------- ArrayStack (6 Stacks)

\* ArrayStack.__init__: the list _data, its last entry the top.
ArrayStack == << >>

StackEmptyMsg == "Stack is empty."

\* ArrayStack.__len__
ArrayStack_len(data) == Len(data)

\* ArrayStack.is_empty
ArrayStack_is_empty(data) == Len(data) = 0

\* ArrayStack.push
ArrayStack_push(data, e) == QReturn(Append(data, e), None)

\* ArrayStack.top
ArrayStack_top(data) ==
  IF ArrayStack_is_empty(data)
  THEN QRaise(data, "EmptyStack", StackEmptyMsg)
  ELSE QReturn(data, data[Len(data)])

\* A mutant of pop: the list's first entry is popped, pop(0).
ArrayStack_pop_first_entry(data) ==
  IF ArrayStack_is_empty(data)
  THEN QRaise(data, "EmptyStack", StackEmptyMsg)
  ELSE QReturn(Tail(data), Head(data))

\* ArrayStack.pop
ArrayStack_pop(data) ==
  IF ArrayStack_is_empty(data)
  THEN QRaise(data, "EmptyStack", StackEmptyMsg)
  ELSE QReturn(SubSeq(data, 1, Len(data) - 1), data[Len(data)])

\* The client's loops on an ArrayStack: push(item) for each item, and n
\* times pop().
RECURSIVE ArrayStack_push_each(_, _)
ArrayStack_push_each(data, items) ==
  IF items = << >> THEN data
  ELSE ArrayStack_push_each(ArrayStack_push(data, Head(items)).q, Tail(items))

RECURSIVE ArrayStack_pop_each(_, _)
ArrayStack_pop_each(data, n) ==
  IF n <= 0 THEN QReturn(data, None)
  ELSE LET o == ArrayStack_pop(data)
       IN  IF o.exc # "none" THEN o ELSE ArrayStack_pop_each(o.q, n - 1)

\* ------------------------------------------- LinkedStack (08. Linked Lists)

\* LinkedStack.Node.__init__
LinkedStack_Node(e, next_node) == [element |-> e, next |-> next_node]

CannotTopMsg == "Cannot get top element from empty stack"

CannotPopMsg == "Cannot pop from empty stack"

\* LinkedStack.__len__
LinkedStack_len(S) == S.size

\* LinkedStack.is_empty
LinkedStack_is_empty(S) == S.size = 0

\* LinkedStack.push: the new node is nodes[Len(nodes) + 1].
LinkedStack_push(S, e) ==
  QReturn([nodes |-> Append(S.nodes, LinkedStack_Node(e, S.head)),
           head |-> Len(S.nodes) + 1, size |-> S.size + 1], None)

\* LinkedStack.top
LinkedStack_top(S) ==
  IF LinkedStack_is_empty(S)
  THEN QRaise(S, "Empty", CannotTopMsg)
  ELSE IF S.head = None
  THEN NoneAttribute(S, "element")
  ELSE QReturn(S, S.nodes[S.head].element)

\* LinkedStack.pop
LinkedStack_pop(S) ==
  IF LinkedStack_is_empty(S)
  THEN QRaise(S, "Empty", CannotPopMsg)
  ELSE IF S.head = None
  THEN NoneAttribute(S, "element")
  ELSE QReturn([S EXCEPT !.head = S.nodes[S.head].next, !.size = S.size - 1],
               S.nodes[S.head].element)

\* The loop of __init__ and push_many: push(item) for each item.
RECURSIVE LinkedStack_push_each(_, _)
LinkedStack_push_each(S, items) ==
  IF items = << >>
  THEN QReturn(S, None)
  ELSE LinkedStack_push_each(LinkedStack_push(S, Head(items)).q, Tail(items))

\* LinkedStack.__init__
LinkedStack(items) ==
  LinkedStack_push_each([nodes |-> << >>, head |-> None, size |-> 0], items).q

\* The loop of pop_many: n times result.append(self.pop()), up to the first
\* call that raises.
RECURSIVE LinkedStack_pop_each(_, _, _)
LinkedStack_pop_each(S, n, result) ==
  IF n <= 0
  THEN QReturnMany(S, result)
  ELSE LET o == LinkedStack_pop(S)
       IN  IF o.exc # "none" THEN o
           ELSE LinkedStack_pop_each(o.q, n - 1, Append(result, o.value))

\* A mutant of pop_many: the count is not compared with the size.
LinkedStack_pop_many_unchecked(S, n) ==
  IF LinkedStack_is_empty(S)
  THEN QRaise(S, "Empty", CannotPopMsg)
  ELSE IF n < 0
  THEN QRaise(S, "ValueError", "Number of elements to pop must be non-negative")
  ELSE LinkedStack_pop_each(S, n, << >>)

\* LinkedStack.pop_many
LinkedStack_pop_many(S, n) ==
  IF LinkedStack_is_empty(S)
  THEN QRaise(S, "Empty", CannotPopMsg)
  ELSE IF n > S.size
  THEN QRaise(S, "ValueError",
              "Cannot pop " \o ToString(n) \o " elements from stack of size "
                \o ToString(S.size))
  ELSE IF n < 0
  THEN QRaise(S, "ValueError", "Number of elements to pop must be non-negative")
  ELSE LinkedStack_pop_each(S, n, << >>)

\* LinkedStack.push_many.  (The items passed are lists: the TypeError for an
\* argument that is not iterable is not raised.)
LinkedStack_push_many(S, items) == LinkedStack_push_each(S, items)

\* LinkedStack.clear: the nodes are left as they are, for garbage collection.
LinkedStack_clear(S) == QReturn([S EXCEPT !.head = None, !.size = 0], None)

\* The loop of reverse: each node from current on is linked back to the node
\* before it, previous; the last node becomes the head.
RECURSIVE LinkedStack_relink(_, _, _)
LinkedStack_relink(S, previous, current) ==
  IF current = None
  THEN QReturn([S EXCEPT !.head = previous], None)
  ELSE LinkedStack_relink([S EXCEPT !.nodes[current].next = previous],
                          current, S.nodes[current].next)

\* LinkedStack.reverse: the links are turned round in place.
LinkedStack_reverse(S) ==
  IF S.size <= 1
  THEN QReturn(S, None)
  ELSE LinkedStack_relink(S, None, S.head)

\* LinkedStack.__iter__: the elements from node on, following next to None.
RECURSIVE LinkedStack_iter(_, _, _)
LinkedStack_iter(S, node, fuel) ==
  IF node = None \/ fuel = 0
  THEN << >>
  ELSE << S.nodes[node].element >> \o LinkedStack_iter(S, S.nodes[node].next, fuel - 1)

\* list(stack)
LinkedStack_list(S) == LinkedStack_iter(S, S.head, Len(S.nodes) + 1)

\* A Python string is the sequence of its characters.  str(item) of an
\* element, a single digit.
Str(item) == << ToString(item) >>

\* ', '.join(strings)
RECURSIVE Join(_)
Join(strings) ==
  IF strings = << >> THEN << >>
  ELSE IF Len(strings) = 1 THEN strings[1]
  ELSE strings[1] \o << ",", " " >> \o Join(Tail(strings))

\* LinkedStack.__str__
LinkedStack_str(S) ==
  << "L", "i", "n", "k", "e", "d", "S", "t", "a", "c", "k", "(", "[" >>
    \o Join([i \in 1..Len(LinkedStack_list(S)) |-> Str(LinkedStack_list(S)[i])])
    \o << "]", ")" >>

\* A call on the two stacks with outcomes o of the LinkedStack and a of the
\* ArrayStack, where the order of the pushes leaves lifo and wants a
\* successful call to return the value want; pop_many returns a list.
StackCall(o, a, lifo, want, batch) ==
  /\ Len(o.q.nodes) <= MaxLinkedNodes
  /\ ls' = o.q
  /\ lsRet' = [exc |-> o.exc,
               value |-> IF batch THEN None ELSE o.value,
               batch |-> IF batch /\ o.exc = "none" THEN o.value ELSE << >>]
  /\ ast' = a.q
  /\ astRet' = [exc |-> a.exc, value |-> a.value]
  /\ stLifo' = IF o.exc = "none" THEN lifo ELSE stLifo
  /\ stWant' = IF o.exc = "none" THEN want ELSE None

\* The client constructs LinkedStack(items) and an ArrayStack onto which it
\* pushes the items, in place of the old stacks.
StackDoNew(items) ==
  /\ ls' = LinkedStack(items)
  /\ lsRet' = [exc |-> "none", value |-> None, batch |-> << >>]
  /\ ast' = ArrayStack_push_each(ArrayStack, items)
  /\ astRet' = [exc |-> "none", value |-> None]
  /\ stLifo' = items
  /\ stWant' = None

\* The newest element of sequence s, None for the empty sequence.
Newest(s) == IF s = << >> THEN None ELSE s[Len(s)]

\* The client calls push(e) on both stacks.
StackDoPush(e) ==
  StackCall(LinkedStack_push(ls, e), ArrayStack_push(ast, e), Append(stLifo, e),
            None, FALSE)

\* The client calls top() on both stacks.
StackDoTop ==
  StackCall(LinkedStack_top(ls), ArrayStack_top(ast), stLifo, Newest(stLifo), FALSE)

\* The client calls pop() on both stacks.
StackDoPop ==
  StackCall(LinkedStack_pop(ls), ArrayStack_pop(ast),
            SubSeq(stLifo, 1, Len(stLifo) - 1), Newest(stLifo), FALSE)

\* The client calls pop_many(n) on the LinkedStack and, when it returns,
\* pop() on the ArrayStack for each element returned.
StackDoPopMany(n) ==
  StackCall(LinkedStack_pop_many(ls, n),
            IF LinkedStack_pop_many(ls, n).exc = "none"
            THEN ArrayStack_pop_each(ast, Len(LinkedStack_pop_many(ls, n).value))
            ELSE QReturn(ast, None),
            SubSeq(stLifo, 1, Len(stLifo) - n), None, TRUE)

\* The client calls push_many(items) on the LinkedStack and push(item) on the
\* ArrayStack for each item.
StackDoPushMany(items) ==
  StackCall(LinkedStack_push_many(ls, items),
            QReturn(ArrayStack_push_each(ast, items), None),
            stLifo \o items, None, FALSE)

\* The client calls reverse() on the LinkedStack and, the ArrayStack having no
\* such method, pops every element off it and pushes each, as popped, onto a
\* new ArrayStack.
StackDoReverse ==
  StackCall(LinkedStack_reverse(ls),
            QReturn(ArrayStack_push_each(ArrayStack, reversed(ast)), None),
            reversed(stLifo), None, FALSE)

\* The client calls clear() on the LinkedStack and pops every element off the
\* ArrayStack.
StackDoClear ==
  StackCall(LinkedStack_clear(ls), ArrayStack_pop_each(ast, ArrayStack_len(ast)),
            << >>, None, FALSE)

StackNew(items) ==
  /\ StackDoNew(items)
  /\ UNCHANGED exceptStack

StackPush(e) ==
  /\ StackDoPush(e)
  /\ UNCHANGED exceptStack

StackTop ==
  /\ StackDoTop
  /\ UNCHANGED exceptStack

StackPop ==
  /\ StackDoPop
  /\ UNCHANGED exceptStack

StackPopMany(n) ==
  /\ StackDoPopMany(n)
  /\ UNCHANGED exceptStack

StackPushMany(items) ==
  /\ StackDoPushMany(items)
  /\ UNCHANGED exceptStack

StackReverse ==
  /\ StackDoReverse
  /\ UNCHANGED exceptStack

StackClear ==
  /\ StackDoClear
  /\ UNCHANGED exceptStack

\* The stacks the client starts with: LinkedStack() and ArrayStack().
StackInit ==
  /\ ls = LinkedStack(<< >>)
  /\ lsRet = [exc |-> "none", value |-> None, batch |-> << >>]
  /\ ast = ArrayStack
  /\ astRet = [exc |-> "none", value |-> None]
  /\ stLifo = << >>
  /\ stWant = None

\* ---------------------------------- the expression utilities (6 Stacks)

\* A string is the sequence of its characters.  str.isdigit and str.isalnum
\* on one character, for the characters up to U+00FF: the decimal digits,
\* the superscript digits (digits that are not decimals), the fractions
\* (numerics that are not digits) and the letters.
Digits == {"0", "1", "2", "3", "4", "5", "6", "7", "8", "9"}

SuperscriptDigits == {"²", "³", "¹"}

Fractions == {"¼", "½", "¾"}

Letters ==
  {"a", "b", "c", "d", "e", "f", "g", "h", "i", "j", "k", "l", "m",
   "n", "o", "p", "q", "r", "s", "t", "u", "v", "w", "x", "y", "z",
   "A", "B", "C", "D", "E", "F", "G", "H", "I", "J", "K", "L", "M",
   "N", "O", "P", "Q", "R", "S", "T", "U", "V", "W", "X", "Y", "Z",
   "ª", "µ", "º",
   "À", "Á", "Â", "Ã", "Ä", "Å", "Æ", "Ç", "È", "É", "Ê", "Ë", "Ì",
   "Í", "Î", "Ï", "Ð", "Ñ", "Ò", "Ó", "Ô", "Õ", "Ö", "Ø", "Ù", "Ú",
   "Û", "Ü", "Ý", "Þ", "ß",
   "à", "á", "â", "ã", "ä", "å", "æ", "ç", "è", "é", "ê", "ë", "ì",
   "í", "î", "ï", "ð", "ñ", "ò", "ó", "ô", "õ", "ö", "ø", "ù", "ú",
   "û", "ü", "ý", "þ", "ÿ"}

isdigit(char) == char \in Digits \cup SuperscriptDigits

isalnum(char) ==
  char \in Digits \cup SuperscriptDigits \cup Fractions \cup Letters

\* char in '+-*/^'
OperatorChars == {"+", "-", "*", "/", "^"}

\* What a function returns or raises.
FnReturn(value) == [exc |-> "none", msg |-> "", value |-> value]

FnRaise(exc, msg) == [exc |-> exc, msg |-> msg, value |-> None]

\* The characters that Python's repr does not write as they are: those of the
\* codes 1 to 31 (C0Controls, in the order of their codes), those of the
\* codes 127 to 160 (C1Controls, likewise) and the soft hyphen, of code 173.
\* (The character of code 0 is one more, which no string here holds.)
C0Controls == "\t\n\f\r"

C1Controls == " "

SoftHyphen == "­"

HexDigits == "0123456789abcdef"

\* The place of a character in a string that holds it
Place(char, string) ==
  CHOOSE i \in 1..Len(string) : SubSeq(string, i, i) = char

\* \xNN for the character of code n
HexEscape(n) ==
  "\\x" \o SubSeq(HexDigits, (n \div 16) + 1, (n \div 16) + 1)
         \o SubSeq(HexDigits, (n % 16) + 1, (n % 16) + 1)

\* repr(char), as int() writes it in its message: the character between
\* single quotes, between double quotes when it is the single quote, with
\* the backslash doubled, the tab, line feed and carriage return escaped and
\* every other character of those above written \xNN.
repr(char) ==
  CASE char = "'" -> "\"'\""
    [] char = "\\" -> "'\\\\'"
    [] char = "\t" -> "'\\t'"
    [] char = "\n" -> "'\\n'"
    [] char = "\r" -> "'\\r'"
    [] char = SoftHyphen -> "'" \o HexEscape(173) \o "'"
    [] \E i \in 1..Len(C0Controls) : SubSeq(C0Controls, i, i) = char ->
         "'" \o HexEscape(Place(char, C0Controls)) \o "'"
    [] \E i \in 1..Len(C1Controls) : SubSeq(C1Controls, i, i) = char ->
         "'" \o HexEscape(Place(char, C1Controls) + 126) \o "'"
    [] OTHER -> "'" \o char \o "'"

\* int(char): the value of a decimal digit, a ValueError for another
\* character.
int(char) ==
  IF char \in Digits
  THEN FnReturn(CHOOSE n \in 0..9 : ToString(n) = char)
  ELSE FnRaise("ValueError",
               "invalid literal for int() with base 10: " \o repr(char))

\* A mutant of get_precedence: the four operators have one precedence.
get_precedence_flat(operator) ==
  CASE operator \in {"*", "/", "+", "-"} -> 1
    [] OTHER -> -1

\* get_precedence: precedence.get(operator, -1)
get_precedence(operator) ==
  CASE operator \in {"*", "/"} -> 2
    [] operator \in {"+", "-"} -> 1
    [] OTHER -> -1

\* The two stacks of convert_infix_to_postfix.
Stacks(operator_stack, operand_stack) ==
  [operator_stack |-> operator_stack, operand_stack |-> operand_stack]

\* At ')': while not operator_stack.is_empty() and operator_stack.top() != '(',
\* operand_stack.push(operator_stack.pop()).
RECURSIVE PopToOpening(_, _)
PopToOpening(operator_stack, operand_stack) ==
  IF /\ ~ArrayStack_is_empty(operator_stack)
     /\ ArrayStack_top(operator_stack).value # "("
  THEN LET o == ArrayStack_pop(operator_stack)
       IN  PopToOpening(o.q, ArrayStack_push(operand_stack, o.value).q)
  ELSE Stacks(operator_stack, operand_stack)

\* At an operator: while not operator_stack.is_empty() and
\* get_precedence(char) <= get_precedence(operator_stack.top()),
\* operand_stack.push(operator_stack.pop()).
RECURSIVE PopNotLower(_, _, _)
PopNotLower(char, operator_stack, operand_stack) ==
  IF /\ ~ArrayStack_is_empty(operator_stack)
     /\ get_precedence(char)
          <= get_precedence(ArrayStack_top(operator_stack).value)
  THEN LET o == ArrayStack_pop(operator_stack)
       IN  PopNotLower(char, o.q, ArrayStack_push(operand_stack, o.value).q)
  ELSE Stacks(operator_stack, operand_stack)

\* After the loop: while not operator_stack.is_empty(),
\* operand_stack.push(operator_stack.pop()).
RECURSIVE PopRemaining(_, _)
PopRemaining(operator_stack, operand_stack) ==
  IF ~ArrayStack_is_empty(operator_stack)
  THEN LET o == ArrayStack_pop(operator_stack)
       IN  PopRemaining(o.q, ArrayStack_push(operand_stack, o.value).q)
  ELSE Stacks(operator_stack, operand_stack)

\* The loop of convert_infix_to_postfix from the i-th character on.
RECURSIVE InfixLoop(_, _, _, _)
InfixLoop(expression, i, operator_stack, operand_stack) ==
  IF i > Len(expression)
  THEN FnReturn(Stacks(operator_stack, operand_stack))
  ELSE
    LET char == expression[i] IN
    IF char = " "
    THEN InfixLoop(expression, i + 1, operator_stack, operand_stack)
    ELSE IF isalnum(char)
    THEN InfixLoop(expression, i + 1, operator_stack,
                   ArrayStack_push(operand_stack, char).q)
    ELSE IF char = "("
    THEN InfixLoop(expression, i + 1,
                   ArrayStack_push(operator_stack, char).q, operand_stack)
    ELSE IF char = ")"
    THEN LET s == PopToOpening(operator_stack, operand_stack)
             o == ArrayStack_pop(s.operator_stack)
         IN  IF o.exc # "none"
             THEN FnRaise(o.exc, o.msg)
             ELSE InfixLoop(expression, i + 1, o.q, s.operand_stack)
    ELSE IF char \in OperatorChars
    THEN LET s == PopNotLower(char, operator_stack, operand_stack)
         IN  InfixLoop(expression, i + 1,
                       ArrayStack_push(s.operator_stack, char).q,
                       s.operand_stack)
    ELSE InfixLoop(expression, i + 1, operator_stack, operand_stack)

\* [operand_stack.pop() for _ in range(len(operand_stack))]
RECURSIVE PopAll(_)
PopAll(operand_stack) ==
  IF ArrayStack_len(operand_stack) = 0 THEN << >>
  ELSE LET o == ArrayStack_pop(operand_stack)
       IN  << o.value >> \o PopAll(o.q)

\* string[::-1]
Backwards(string) == [i \in 1..Len(string) |-> string[Len(string) + 1 - i]]

\* convert_infix_to_postfix (infix-to-prefix.py holds the same function)
convert_infix_to_postfix(expression) ==
  LET loop == InfixLoop(expression, 1, ArrayStack, ArrayStack) IN
  IF loop.exc # "none" THEN loop
  ELSE LET s == PopRemaining(loop.value.operator_stack,
                             loop.value.operand_stack)
       IN  FnReturn(Backwards(PopAll(s.operand_stack)))

\* ---- Python's float, the IEEE 754 double
\*
\* A float is the record [float, sign, mantissa, exponent]: float is
\* "finite", "inf" or "nan"; a finite float is sign * m * 2^exponent, where
\* sign is 1 or -1 and m is the natural number written by mantissa.  m is
\* odd, or zero (mantissa << >>, exponent 0: the floats 0.0 and -0.0), so
\* that every float has one record.  3.0 is [float |-> "finite", sign |-> 1,
\* mantissa |-> <<3>>, exponent |-> 0] and 1.5 the same with exponent -1.
\*
\* A natural number is written as the sequence of its digits in base 2^15,
\* the least significant first and the most significant not 0: the number
\* is the sum of digits[i] * 32768^(i-1), and zero is << >>.
\* The powers of two from 2^0 up to the base of the digits.
Powers ==
  << 1, 2, 4, 8, 16, 32, 64, 128, 256, 512, 1024, 2048, 4096, 8192, 16384,
     32768 >>

\* 2^k for k in 0..15
Pow2(k) == Powers[k + 1]

\* The number of bits of a digit, and the base the digits are written in.
DigitBits == Len(Powers) - 1

Base == Pow2(DigitBits)

\* The digits without the zeros at the most significant end.
NatTrim(a) ==
  IF \A i \in 1..Len(a) : a[i] = 0 THEN << >>
  ELSE SubSeq(a, 1, CHOOSE i \in 1..Len(a) :
                      a[i] # 0 /\ \A j \in (i + 1)..Len(a) : a[j] = 0)

\* The number n, for 0 <= n < 2^31
NatOf(n) ==
  NatTrim(<< n % Base, (n \div Base) % Base, n \div (Base * Base) >>)

DigitAt(a, i) == IF i >= 1 /\ i <= Len(a) THEN a[i] ELSE 0

\* a + b.  Digit i receives a carry when, below it, a pair of digits adds up
\* to the base or more and every pair between adds up to the base less one.
NatAdd(a, b) ==
  LET n == IF Len(a) > Len(b) THEN Len(a) ELSE Len(b)
      s == [i \in 1..(n + 1) |-> DigitAt(a, i) + DigitAt(b, i)]
      carry == [i \in 1..(n + 1) |->
                  IF \E j \in 1..(i - 1) :
                       s[j] >= Base /\ \A k \in (j + 1)..(i - 1) : s[k] = Base - 1
                  THEN 1 ELSE 0]
  IN  NatTrim([i \in 1..(n + 1) |-> (s[i] + carry[i]) % Base])

\* a - b, for a >= b.  Digit i lends when, below it, a digit of a is less
\* than that of b and every pair of digits between is equal.
NatSub(a, b) ==
  LET d == [i \in 1..Len(a) |-> a[i] - DigitAt(b, i)]
      borrow == [i \in 1..Len(a) |->
                   IF \E j \in 1..(i - 1) :
                        d[j] < 0 /\ \A k \in (j + 1)..(i - 1) : d[k] = 0
                   THEN 1 ELSE 0]
  IN  NatTrim([i \in 1..Len(a) |-> (d[i] - borrow[i] + Base) % Base])

\* -1, 0 or 1 as a < b, a = b or a > b
NatCmp(a, b) ==
  IF Len(a) # Len(b) THEN (IF Len(a) > Len(b) THEN 1 ELSE -1)
  ELSE IF a = b THEN 0
  ELSE LET i == CHOOSE i \in 1..Len(a) :
                  a[i] # b[i] /\ \A j \in (i + 1)..Len(a) : a[j] = b[j]
       IN  IF a[i] > b[i] THEN 1 ELSE -1

\* a * 32768^k
NatShiftDigits(a, k) == IF a = << >> THEN << >> ELSE [i \in 1..k |-> 0] \o a

\* a * d, for a digit d: the low halves of the products of the digits, plus
\* their high halves one digit up.
NatMulDigit(a, d) ==
  NatAdd(NatTrim([i \in 1..Len(a) |-> (a[i] * d) % Base]),
         NatShiftDigits(NatTrim([i \in 1..Len(a) |-> (a[i] * d) \div Base]), 1))

\* a * b, from digit j of b on, added to sum
RECURSIVE NatMulFrom(_, _, _, _)
NatMulFrom(a, b, j, sum) ==
  IF j > Len(b) THEN sum
  ELSE NatMulFrom(a, b, j + 1,
                  NatAdd(sum, NatShiftDigits(NatMulDigit(a, b[j]), j - 1)))

\* a * b
NatMul(a, b) == NatMulFrom(a, b, 1, << >>)

\* a * 2^k
NatShiftLeft(a, k) ==
  LET bits == k % DigitBits
      shifted ==
        [i \in 1..(Len(a) + 1) |->
           ((DigitAt(a, i) * Pow2(bits)) % Base)
             + (DigitAt(a, i - 1) \div Pow2(DigitBits - bits))]
  IN  NatShiftDigits(NatTrim(shifted), k \div DigitBits)

\* a // 2^k
NatShiftRight(a, k) ==
  LET digits == k \div DigitBits
      bits == k % DigitBits
      upper == IF digits >= Len(a) THEN << >>
               ELSE SubSeq(a, digits + 1, Len(a))
  IN  NatTrim([i \in 1..Len(upper) |->
                 (upper[i] \div Pow2(bits))
                   + ((DigitAt(upper, i + 1) % Pow2(bits))
                        * Pow2(DigitBits - bits))])

\* The number of bits of a: the least n with a < 2^n.
NatBitLength(a) ==
  IF a = << >> THEN 0
  ELSE (Len(a) - 1) * DigitBits
         + (CHOOSE n \in 1..DigitBits :
              Pow2(n - 1) <= a[Len(a)] /\ a[Len(a)] < Pow2(n))

\* The bit of weight 2^(j-1) of a, and 0 for j < 1.
NatBit(a, j) ==
  IF j < 1 THEN 0
  ELSE (DigitAt(a, (j - 1) \div DigitBits + 1)
          \div Pow2((j - 1) % DigitBits)) % 2

\* a is a multiple of 2^k.
NatDivisible(a, k) ==
  \/ k <= 0
  \/ /\ \A i \in 1..(k \div DigitBits) : DigitAt(a, i) = 0
     /\ DigitAt(a, k \div DigitBits + 1) % Pow2(k % DigitBits) = 0

\* The lesser of two integers
Least(m, n) == IF m < n THEN m ELSE n

\* The greater of two integers
Greatest(m, n) == IF m > n THEN m ELSE n

\* The quotient of the two leading digits of r by the leading digit of b,
\* where r has one digit more than b at most.
LeadingQuotient(r, b) ==
  (DigitAt(r, Len(b) + 1) * Base + DigitAt(r, Len(b))) \div b[Len(b)]

\* The greatest digit d with b * d <= r, which is high, high - 1 or high - 2.
QuotientDigitFrom(r, b, high) ==
  IF NatCmp(NatMulDigit(b, high), r) <= 0 THEN high
  ELSE IF NatCmp(NatMulDigit(b, high - 1), r) <= 0 THEN high - 1
  ELSE high - 2

\* The greatest digit d with b * d <= r, for r < b * 32768 and b of a most
\* significant digit of 16384 or more: the quotient of the leading digits is
\* d, d + 1 or d + 2.
QuotientDigit(r, b) ==
  QuotientDigitFrom(r, b, Least(LeadingQuotient(r, b), Base - 1))

\* The long division of a by b from digit i of a down, with the quotient
\* and the remainder of the digits above i.  Digit i of a heads r, which
\* gives the digit d of the quotient and leaves the remainder r - b * d:
\* r itself when d is zero.
RECURSIVE NatDivFrom(_, _, _, _, _)
NatDivFrom(a, b, i, quotient, remainder) ==
  IF i = 0 THEN [quotient |-> quotient, remainder |-> remainder]
  ELSE LET r == NatTrim(<< a[i] >> \o remainder)
           d == QuotientDigit(r, b)
       IN  IF d = 0
           THEN NatDivFrom(a, b, i - 1, NatTrim(<< 0 >> \o quotient), r)
           ELSE NatDivFrom(a, b, i - 1, << d >> \o quotient,
                           NatSub(r, NatMulDigit(b, d)))

\* a // b and a % b, for b of a most significant digit of 16384 or more.  The
\* digits of a above those that b has are the first remainder.
NatDivMod(a, b) ==
  IF Len(a) < Len(b) THEN [quotient |-> << >>, remainder |-> a]
  ELSE NatDivFrom(a, b, Len(a) - Len(b) + 1, << >>,
                  SubSeq(a, Len(a) - Len(b) + 2, Len(a)))

\* The double's format: 53 bits of mantissa, the least positive double
\* 2^-1074, and every finite double below 2^1024.
MantissaBits == 53

MinExponent == -1074

MaxExponent == 1024

Infinity(sign) ==
  [float |-> "inf", sign |-> sign, mantissa |-> << >>, exponent |-> 0]

NaN == [float |-> "nan", sign |-> 1, mantissa |-> << >>, exponent |-> 0]

\* The zero of a sign
Zero(sign) ==
  [float |-> "finite", sign |-> sign, mantissa |-> << >>, exponent |-> 0]

\* The number of zero bits at the least significant end of m, m not zero.
TrailingZeros(m) ==
  CHOOSE k \in 0..(NatBitLength(m) - 1) :
    NatDivisible(m, k) /\ NatBit(m, k + 1) = 1

\* sign * m * 2^e with its zeros bits at the least significant end of m
\* moved to the exponent
Canonical(sign, m, e, zeros) ==
  [float |-> "finite", sign |-> sign,
   mantissa |-> NatShiftRight(m, zeros), exponent |-> e + zeros]

\* The record of sign * m * 2^e, a value that is a double.
FloatOf(sign, m, e) ==
  IF m = << >> THEN Zero(sign) ELSE Canonical(sign, m, e, TrailingZeros(m))

\* The record of sign * m * 2^e where m has 53 bits at most and e is
\* MinExponent or more: the infinity from 2^1024 on.
Finite(sign, m, e) ==
  IF NatBitLength(m) + e > MaxExponent THEN Infinity(sign)
  ELSE FloatOf(sign, m, e)

\* The number of bits at the least significant end of n that a double of
\* the value n * 2^e has no room for: those beyond the 53 most significant,
\* and those of a weight below 2^MinExponent.
Dropped(n, e) ==
  Greatest(e + NatBitLength(n) - MantissaBits, MinExponent) - e

\* keep, or keep + 1 when the bits dropped are more than half a unit of
\* keep, or are half a unit and keep is odd (round-half-to-even)
RoundKept(keep, half, sticky) ==
  IF half /\ (sticky \/ NatBit(keep, 1) = 1) THEN NatAdd(keep, << 1 >>)
  ELSE keep

\* n // 2^dropped, rounded to the nearest
NatRound(n, dropped) ==
  IF dropped <= 0 THEN n
  ELSE RoundKept(NatShiftRight(n, dropped), NatBit(n, dropped) = 1,
                 ~NatDivisible(n, dropped - 1))

\* The double nearest to sign * n * 2^e, where dropped is Dropped(n, e)
RoundAt(sign, n, e, dropped) ==
  Finite(sign, NatRound(n, dropped), e + Greatest(dropped, 0))

\* The double nearest to sign * n * 2^e, the one of even mantissa when two
\* are as near (round-half-to-even), and the infinity from 2^1024 on.
RoundToFloat(sign, n, e) ==
  IF n = << >> THEN Zero(sign) ELSE RoundAt(sign, n, e, Dropped(n, e))

\* float(n) of an int
float(n) == FloatOf(IF n < 0 THEN -1 ELSE 1, NatOf(IF n < 0 THEN -n ELSE n), 0)

\* type(x) is float: x is a record, which is written with a bracket.
isfloat(x) == Head(ToString(x)) = "["

\* The operand as the arithmetic of floats takes it.
AsFloat(x) == IF isfloat(x) THEN x ELSE float(x)

IsZero(x) == x.float = "finite" /\ x.mantissa = << >>

\* 2^Top(x) is the least power of two above a finite x that is not zero.
Top(x) == x.exponent + NatBitLength(x.mantissa)

\* sx * nx * 2^e + sy * ny * 2^e, rounded.  A sum that is zero is 0.0.
AddMagnitudes(sx, nx, sy, ny, e) ==
  IF sx # sy /\ nx = ny THEN Zero(1)
  ELSE RoundToFloat(IF sx = sy \/ NatCmp(nx, ny) > 0 THEN sx ELSE sy,
                    IF sx = sy THEN NatAdd(nx, ny)
                    ELSE IF NatCmp(nx, ny) > 0 THEN NatSub(nx, ny)
                    ELSE NatSub(ny, nx),
                    e)

\* x + y of two finite floats that are not zero, the one not the smaller of
\* the other in magnitude by 57 binary places or more, with their mantissas
\* brought to the exponent e, the lesser of theirs.
AddAligned(x, y, e) ==
  AddMagnitudes(x.sign, NatShiftLeft(x.mantissa, x.exponent - e),
                y.sign, NatShiftLeft(y.mantissa, y.exponent - e), e)

\* x + y of two floats.  A term 57 binary places or more below the other is
\* less than a quarter of the distance between the other and its neighbours,
\* and the sum is the other.
float_add(x, y) ==
  IF x.float = "nan" \/ y.float = "nan" THEN NaN
  ELSE IF x.float = "inf"
  THEN IF y.float = "inf" /\ y.sign # x.sign THEN NaN ELSE x
  ELSE IF y.float = "inf" THEN y
  ELSE IF IsZero(x) /\ IsZero(y)
  THEN Zero(IF x.sign = -1 /\ y.sign = -1 THEN -1 ELSE 1)
  ELSE IF IsZero(x) THEN y
  ELSE IF IsZero(y) THEN x
  ELSE IF Top(y) + 57 <= Top(x) THEN x
  ELSE IF Top(x) + 57 <= Top(y) THEN y
  ELSE AddAligned(x, y, Least(x.exponent, y.exponent))

\* -x
float_neg(x) == IF x.float = "nan" THEN x ELSE [x EXCEPT !.sign = -x.sign]

\* x - y of two floats
float_sub(x, y) == float_add(x, float_neg(y))

\* x * y of two floats
float_mul(x, y) ==
  IF x.float = "nan" \/ y.float = "nan" THEN NaN
  ELSE IF x.float = "inf" \/ y.float = "inf"
  THEN IF IsZero(x) \/ IsZero(y) THEN NaN ELSE Infinity(x.sign * y.sign)
  ELSE RoundToFloat(x.sign * y.sign, NatMul(x.mantissa, y.mantissa),
                    x.exponent + y.exponent)

\* The number of bits by which to shift b for its most significant digit to
\* be 16384 or more
Normalising(b) == (DigitBits - (NatBitLength(b) % DigitBits)) % DigitBits

\* The number of bits by which to shift a for a // b to have 56 bits or more
Widening(a, b) ==
  Greatest(MantissaBits + 3 + NatBitLength(b) - NatBitLength(a), 0)

\* Twice the quotient of a division, plus one when it left a remainder
WithSticky(d) ==
  IF d.remainder = << >> THEN NatShiftLeft(d.quotient, 1)
  ELSE NatAdd(NatShiftLeft(d.quotient, 1), << 1 >>)

\* sign * (a / b) * 2^e, rounded: a is shifted by wide bits for the quotient
\* to have the bits that the rounding needs, and both by normal bits for the
\* long division.
DivideMantissas(sign, a, b, e, wide, normal) ==
  RoundToFloat(sign,
               WithSticky(NatDivMod(NatShiftLeft(a, wide + normal),
                                    NatShiftLeft(b, normal))),
               e - wide - 1)

\* x / y of two floats, y not zero: the quotient of the mantissas to 56 bits
\* or more, with one more bit that tells whether the division left a
\* remainder, rounded.
float_div(x, y) ==
  IF x.float = "nan" \/ y.float = "nan" THEN NaN
  ELSE IF x.float = "inf"
  THEN IF y.float = "inf" THEN NaN ELSE Infinity(x.sign * y.sign)
  ELSE IF y.float = "inf" \/ IsZero(x) THEN Zero(x.sign * y.sign)
  ELSE DivideMantissas(x.sign * y.sign, x.mantissa, y.mantissa,
                       x.exponent - y.exponent,
                       Widening(x.mantissa, y.mantissa),
                       Normalising(y.mantissa))

\* operand_1 / operand_2 where operand_2 is not zero: the float nearest to
\* the quotient, of two ints as well.
TrueDivision(operand_1, operand_2) ==
  float_div(AsFloat(operand_1), AsFloat(operand_2))

\* operand_2 == 0, of an int or a float
EqualsZero(operand) ==
  IF isfloat(operand) THEN IsZero(operand) ELSE operand = 0

\* The branch of evaluate_postfix and of evaluate_prefix on an operator,
\* once the two operands are popped: the arithmetic of ints on two ints, and
\* that of floats when an operand is a float.
Operate(char, operand_1, operand_2, stack) ==
  LET floats == isfloat(operand_1) \/ isfloat(operand_2)
      x == AsFloat(operand_1)
      y == AsFloat(operand_2)
  IN
  CASE char = "+" ->
         FnReturn(ArrayStack_push(
                    stack, IF floats THEN float_add(x, y)
                           ELSE operand_1 + operand_2).q)
    [] char = "-" ->
         FnReturn(ArrayStack_push(
                    stack, IF floats THEN float_sub(x, y)
                           ELSE operand_1 - operand_2).q)
    [] char = "*" ->
         FnReturn(ArrayStack_push(
                    stack, IF floats THEN float_mul(x, y)
                           ELSE operand_1 * operand_2).q)
    [] char = "/" ->
         IF EqualsZero(operand_2)
         THEN FnRaise("ZeroDivisionError",
                      IF floats THEN "float division by zero"
                      ELSE "division by zero")
         ELSE FnReturn(ArrayStack_push(
                         stack, TrueDivision(operand_1, operand_2)).q)
    [] OTHER -> FnReturn(stack)

\* The body of the loop of evaluate_postfix on a character
PostfixStep(char, stack) ==
  LET n == int(char)
      popped_2 == ArrayStack_pop(stack)
      popped_1 == ArrayStack_pop(popped_2.q)
  IN  IF isdigit(char)
      THEN IF n.exc # "none" THEN n
           ELSE FnReturn(ArrayStack_push(stack, n.value).q)
      ELSE IF char \in OperatorChars
      THEN IF popped_2.exc # "none"
           THEN FnRaise(popped_2.exc, popped_2.msg)
           ELSE IF popped_1.exc # "none"
           THEN FnRaise(popped_1.exc, popped_1.msg)
           ELSE Operate(char, popped_1.value, popped_2.value, popped_1.q)
      ELSE FnReturn(stack)

RECURSIVE PostfixLoop(_, _, _)

\* The loop of evaluate_postfix after the step on the i-th character: what
\* the step raised, or the loop from the next character on.
PostfixNext(expression, i, step) ==
  IF step.exc # "none" THEN step
  ELSE PostfixLoop(expression, i + 1, step.value)

\* The loop of evaluate_postfix from the i-th character on.
PostfixLoop(expression, i, stack) ==
  IF i > Len(expression) THEN FnReturn(stack)
  ELSE PostfixNext(expression, i, PostfixStep(expression[i], stack))

\* return stack.top()
ReturnTop(top) ==
  IF top.exc # "none" THEN FnRaise(top.exc, top.msg) ELSE FnReturn(top.value)

\* What the function does once its loop is over: what the loop raised, or
\* the top of the stack that the loop has left.
AfterLoop(loop) ==
  IF loop.exc # "none" THEN loop ELSE ReturnTop(ArrayStack_top(loop.value))

\* evaluate_postfix
evaluate_postfix(expression) ==
  AfterLoop(PostfixLoop(expression, 1, ArrayStack))

\* reverse_expression
reverse_expression(expression) ==
  [i \in 1..Len(expression) |->
     LET char == Backwards(expression)[i]
     IN  IF char = "(" THEN ")" ELSE IF char = ")" THEN "(" ELSE char]

\* convert_infix_to_prefix
convert_infix_to_prefix(expression) ==
  LET reversed_expression == reverse_expression(expression)
      postfix_expression == convert_infix_to_postfix(reversed_expression)
  IN  IF postfix_expression.exc # "none" THEN postfix_expression
      ELSE FnReturn(Backwards(postfix_expression.value))

\* The body of the loop of evaluate_prefix on a character
PrefixStep(char, stack) ==
  LET n == int(char)
      popped_1 == ArrayStack_pop(stack)
      popped_2 == ArrayStack_pop(popped_1.q)
  IN  IF isdigit(char)
      THEN IF n.exc # "none" THEN n
           ELSE FnReturn(ArrayStack_push(stack, n.value).q)
      ELSE IF char \in OperatorChars
      THEN IF popped_1.exc # "none"
           THEN FnRaise(popped_1.exc, popped_1.msg)
           ELSE IF popped_2.exc # "none"
           THEN FnRaise(popped_2.exc, popped_2.msg)
           ELSE Operate(char, popped_1.value, popped_2.value, popped_2.q)
      ELSE FnReturn(stack)

RECURSIVE PrefixLoop(_, _, _)

\* The loop of evaluate_prefix after the step on the i-th character of
\* expression[::-1]: what the step raised, or the loop from the next
\* character on.
PrefixNext(backwards, i, step) ==
  IF step.exc # "none" THEN step
  ELSE PrefixLoop(backwards, i + 1, step.value)

\* The loop of evaluate_prefix over expression[::-1] from the i-th character
\* on.
PrefixLoop(backwards, i, stack) ==
  IF i > Len(backwards) THEN FnReturn(stack)
  ELSE PrefixNext(backwards, i, PrefixStep(backwards[i], stack))

\* evaluate_prefix
evaluate_prefix(expression) ==
  AfterLoop(PrefixLoop(Backwards(expression), 1, ArrayStack))

\* The expressions the client reads: the well-formed infix expressions of
\* up to MaxOperators binary operators over the operands below, with one
\* pair of parentheses at most for every two operators, each written down
\* together with its postfix form and, where it is made of decimal digits
\* and + - *, its value; and the expressions of one operand, for an operand
\* of each class of alphanumeric characters.
MaxOperators == 2

MaxParentheses == MaxOperators \div 2

Operands == {"3", "a"}

LoneOperands == Operands \cup {"A", "²", "½", "é"}

Valued(n) == [known |-> TRUE, n |-> n]

Unvalued == [known |-> FALSE, n |-> 0]

Operand(char) ==
  [infix |-> << char >>, postfix |-> << char >>,
   value |-> IF char \in Digits THEN Valued(int(char).value) ELSE Unvalued]

Parenthesised(e) ==
  [infix |-> << "(" >> \o e.infix \o << ")" >>,
   postfix |-> e.postfix, value |-> e.value]

Binary(op, l, r) ==
  [infix |-> l.infix \o << op >> \o r.infix,
   postfix |-> l.postfix \o r.postfix \o << op >>,
   value |-> IF ~l.value.known \/ ~r.value.known \/ op = "/" THEN Unvalued
             ELSE CASE op = "+" -> Valued(l.value.n + r.value.n)
                    [] op = "-" -> Valued(l.value.n - r.value.n)
                    [] op = "*" -> Valued(l.value.n * r.value.n)]

\* The grammar: an expression is terms joined by + and -, grouped from the
\* left; a term is factors joined by * and /, grouped from the left; a
\* factor is an operand or an expression in parentheses.  Grammar(K, P) is
\* the table of the factors, terms and expressions of exactly k operators
\* and p pairs of parentheses, for k in 0..K and p in 0..P: the entry of
\* (k, p) is at index p * (K + 1) + k + 1, and is built from the entries
\* before it.
Joined(ops, lefts, rights) ==
  {Binary(x[1], x[2], x[3]) : x \in ops \X lefts \X rights}

GrammarEntry(table, K, k, p) ==
  LET At(i, j) == table[j * (K + 1) + i + 1]
      Sides == (0..(k - 1)) \X (0..p)
      factors ==
        (IF k = 0 /\ p = 0 THEN {Operand(char) : char \in Operands} ELSE {})
          \cup (IF p >= 1 THEN {Parenthesised(e) : e \in At(k, p - 1).expressions}
                ELSE {})
      products ==
        UNION {Joined({"*", "/"}, At(s[1], s[2]).terms,
                      At(k - 1 - s[1], p - s[2]).factors) : s \in Sides}
      terms == factors \cup products
      sums ==
        UNION {Joined({"+", "-"}, At(s[1], s[2]).expressions,
                      At(k - 1 - s[1], p - s[2]).terms) : s \in Sides}
  IN  [factors |-> factors, terms |-> terms, expressions |-> terms \cup sums]

RECURSIVE GrammarFrom(_, _, _)
GrammarFrom(table, K, P) ==
  IF Len(table) = (K + 1) * (P + 1) THEN table
  ELSE GrammarFrom(
         Append(table, GrammarEntry(table, K, Len(table) % (K + 1),
                                    Len(table) \div (K + 1))),
         K, P)

Grammar(K, P) == GrammarFrom(<< >>, K, P)

WellFormed(K, P) ==
  LET table == Grammar(K, P)
  IN  UNION {table[n].expressions : n \in 1..Len(table)}

\* A function the client has not called yet.
NotRun == [exc |-> "not run", msg |-> "", value |-> None]

\* The client reads the expression it works on.
ExpressionRead ==
  /\ exInfix = << >>
  /\ \E r \in WellFormed(MaxOperators, MaxParentheses)
                \cup {Operand(char) : char \in LoneOperands} :
       /\ exInfix' = r.infix
       /\ exWant' = [postfix |-> r.postfix, value |-> r.value]
  /\ exPostfix' = NotRun
  /\ exPrefix' = NotRun
  /\ exPostfixValue' = NotRun
  /\ exPrefixValue' = NotRun
  /\ UNCHANGED exceptExpression

\* postfix = convert_infix_to_postfix(expression)
ExpressionToPostfix ==
  /\ exInfix # << >>
  /\ exPostfix.exc = "not run"
  /\ exPostfix' = convert_infix_to_postfix(exInfix)
  /\ UNCHANGED <<exInfix, exWant, exPrefix, exPostfixValue, exPrefixValue>>
  /\ UNCHANGED exceptExpression

\* prefix = convert_infix_to_prefix(expression)
ExpressionToPrefix ==
  /\ exInfix # << >>
  /\ exPrefix.exc = "not run"
  /\ exPrefix' = convert_infix_to_prefix(exInfix)
  /\ UNCHANGED <<exInfix, exWant, exPostfix, exPostfixValue, exPrefixValue>>
  /\ UNCHANGED exceptExpression

\* evaluate_postfix(postfix)
ExpressionEvaluatePostfix ==
  /\ exPostfix.exc = "none"
  /\ exPostfixValue.exc = "not run"
  /\ exPostfixValue' = evaluate_postfix(exPostfix.value)
  /\ UNCHANGED <<exInfix, exWant, exPostfix, exPrefix, exPrefixValue>>
  /\ UNCHANGED exceptExpression

\* evaluate_prefix(prefix)
ExpressionEvaluatePrefix ==
  /\ exPrefix.exc = "none"
  /\ exPrefixValue.exc = "not run"
  /\ exPrefixValue' = evaluate_prefix(exPrefix.value)
  /\ UNCHANGED <<exInfix, exWant, exPostfix, exPrefix, exPostfixValue>>
  /\ UNCHANGED exceptExpression

\* The client before it has read an expression.
ExpressionInit ==
  /\ exInfix = << >>
  /\ exWant = [postfix |-> << >>, value |-> Unvalued]
  /\ exPostfix = NotRun
  /\ exPrefix = NotRun
  /\ exPostfixValue = NotRun
  /\ exPrefixValue = NotRun

Init ==
  /\ heap = InitHeap
  /\ size = [L \in Lists |-> 0]
  /\ slots = [s \in Slots |-> NoneValue]
  /\ issued = {}
  /\ deleted = {}
  /\ adds = [L \in Lists |-> 0]
  /\ deletes = [L \in Lists |-> 0]
  /\ DequeInit
  /\ CircularQueueInit
  /\ CircularDequeInit
  /\ ArrayQueueInit
  /\ LinkedQueueInit
  /\ LinkedCircularQueueInit
  /\ StackInit
  /\ ExpressionInit

Next ==
  \/ \E L \in Lists, d \in Slots : First(L, d)
  \/ \E L \in Lists, d \in Slots : Last(L, d)
  \/ \E L \in Lists, p \in Args, d \in Slots : Before(L, p, d)
  \/ \E L \in Lists, p \in Args, d \in Slots : After(L, p, d)
  \/ \E L \in Lists, e \in Elements, d \in Slots : AddFirst(L, e, d)
  \/ \E L \in Lists, e \in Elements, d \in Slots : AddLast(L, e, d)
  \/ \E L \in Lists, p \in Args, e \in Elements, d \in Slots : AddBefore(L, p, e, d)
  \/ \E L \in Lists, p \in Args, e \in Elements, d \in Slots : AddAfter(L, p, e, d)
  \/ \E L \in Lists, p \in Args : Delete(L, p)
  \/ \E L \in Lists, p \in Args, e \in Elements : Replace(L, p, e)

Spec == Init /\ [][Next]_vars

\* The public operations of the two Deques.
DequeNext ==
  \/ \E L \in Lists : DequeFirst(L)
  \/ \E L \in Lists : DequeLast(L)
  \/ \E L \in Lists, e \in Elements : InsertFirst(L, e)
  \/ \E L \in Lists, e \in Elements : InsertLast(L, e)
  \/ \E L \in Lists : DeleteFirst(L)
  \/ \E L \in Lists : DeleteLast(L)

DequeSpec == Init /\ [][DequeNext]_vars

\* No PositionalList operation has run: the lists are as constructed.
PositionalUnused ==
  /\ heap = InitHeap
  /\ size = [L \in Lists |-> 0]
  /\ slots = [s \in Slots |-> NoneValue]
  /\ issued = {}
  /\ deleted = {}
  /\ adds = [L \in Lists |-> 0]
  /\ deletes = [L \in Lists |-> 0]

\* A client of the PositionalLists: any of their public operations.
UsePositionalList ==
  /\ DequeInit
  /\ Next

\* A client of the Deques: any of their public operations.
UseDeque ==
  /\ PositionalUnused
  /\ DequeNext

\* The public operations of the two classes built on _DoublyLinkedListBase.
\* An instance of one class is never reachable from an instance of the other
\* (each constructor allocates its own sentinels and every node is linked
\* between the sentinels of the list that allocated it), so a state of a
\* program that uses both is a pair of states of programs that use one: the
\* program here works with the PositionalLists or with the Deques.
LinkedListsNext ==
  \/ UsePositionalList
  \/ UseDeque

LinkedListsSpec == Init /\ [][LinkedListsNext]_vars

\* The constructor and the public operations of the CircularQueue.
CircularQueueNext ==
  \/ \E c \in Capacities : CircularQueueNew(c)
  \/ CircularQueueFirst
  \/ CircularQueueDequeue
  \/ \E e \in Elements : CircularQueueEnqueue(e)

CircularQueueSpec == Init /\ [][CircularQueueNext]_vars

\* The constructor and the public operations of the CircularDeque.
CircularDequeNext ==
  \/ \E c \in Capacities : CircularDequeNew(c)
  \/ CircularDequeFirst
  \/ CircularDequeLast
  \/ \E e \in Elements : CircularDequeEnqueueFirst(e)
  \/ \E e \in Elements : CircularDequeEnqueueLast(e)
  \/ CircularDequeDequeueFirst
  \/ CircularDequeDequeueLast

CircularDequeSpec == Init /\ [][CircularDequeNext]_vars

\* The public operations of the ArrayQueue.
ArrayQueueNext ==
  \/ ArrayQueueFirst
  \/ ArrayQueueDequeue
  \/ ArrayQueueEnqueue

ArrayQueueSpec == Init /\ [][ArrayQueueNext]_vars

\* The constructor and the public operations of the LinkedQueue.
LinkedQueueNext ==
  \/ \E items \in Items : LinkedQueueNew(items)
  \/ LinkedQueueFirst
  \/ LinkedQueueLast
  \/ \E e \in Elements : LinkedQueueEnqueue(e)
  \/ LinkedQueueDequeue
  \/ \E n \in Counts : LinkedQueueDequeueMany(n)
  \/ \E items \in Items : LinkedQueueEnqueueMany(items)
  \/ LinkedQueueReverse
  \/ LinkedQueueClear

LinkedQueueSpec == Init /\ [][LinkedQueueNext]_vars

\* The constructor and the public operations of the LinkedListCircularQueue.
LinkedCircularQueueNext ==
  \/ \E items \in Items : LinkedCircularQueueNew(items)
  \/ LinkedCircularQueueFirst
  \/ LinkedCircularQueueLast
  \/ \E e \in Elements : LinkedCircularQueueEnqueue(e)
  \/ LinkedCircularQueueDequeue
  \/ \E n \in Counts : LinkedCircularQueueDequeueMany(n)
  \/ LinkedCircularQueueRotate
  \/ \E items \in Items : LinkedCircularQueueEnqueueMany(items)
  \/ LinkedCircularQueueReverse
  \/ LinkedCircularQueueClear

LinkedCircularQueueSpec == Init /\ [][LinkedCircularQueueNext]_vars

\* The constructors and the public operations of the two stacks.
StackNext ==
  \/ \E items \in Items : StackNew(items)
  \/ \E e \in Elements : StackPush(e)
  \/ StackTop
  \/ StackPop
  \/ \E n \in Counts : StackPopMany(n)
  \/ \E items \in Items : StackPushMany(items)
  \/ StackReverse
  \/ StackClear

StackSpec == Init /\ [][StackNext]_vars

\* A client that makes the same calls on a LinkedQueue, a
\* LinkedListCircularQueue and a LinkedStack: it builds the three from the
\* same items, adds the same element or items to each, removes one element
\* from each, asks each for a batch of n, reverses each and clears each.
BatchNew(items) ==
  /\ LinkedQueueDoNew(items)
  /\ LinkedCircularQueueDoNew(items)
  /\ StackDoNew(items)
  /\ UNCHANGED exceptLinked

BatchAdd(e) ==
  /\ LinkedQueueDoEnqueue(e)
  /\ LinkedCircularQueueDoEnqueue(e)
  /\ StackDoPush(e)
  /\ UNCHANGED exceptLinked

BatchRemove ==
  /\ LinkedQueueDoDequeue
  /\ LinkedCircularQueueDoDequeue
  /\ StackDoPop
  /\ UNCHANGED exceptLinked

BatchRemoveMany(n) ==
  /\ LinkedQueueDoDequeueMany(n)
  /\ LinkedCircularQueueDoDequeueMany(n)
  /\ StackDoPopMany(n)
  /\ UNCHANGED exceptLinked

BatchAddMany(items) ==
  /\ LinkedQueueDoEnqueueMany(items)
  /\ LinkedCircularQueueDoEnqueueMany(items)
  /\ StackDoPushMany(items)
  /\ UNCHANGED exceptLinked

BatchReverse ==
  /\ LinkedQueueDoReverse
  /\ LinkedCircularQueueDoReverse
  /\ StackDoReverse
  /\ UNCHANGED exceptLinked

BatchClear ==
  /\ LinkedQueueDoClear
  /\ LinkedCircularQueueDoClear
  /\ StackDoClear
  /\ UNCHANGED exceptLinked

BatchNext ==
  \/ \E items \in Items : BatchNew(items)
  \/ \E e \in Elements : BatchAdd(e)
  \/ BatchRemove
  \/ \E n \in Counts : BatchRemoveMany(n)
  \/ \E items \in Items : BatchAddMany(items)
  \/ BatchReverse
  \/ BatchClear

BatchSpec == Init /\ [][BatchNext]_vars

\* The client of the expression utilities.
ExpressionNext ==
  \/ ExpressionRead
  \/ ExpressionToPostfix
  \/ ExpressionToPrefix
  \/ ExpressionEvaluatePostfix
  \/ ExpressionEvaluatePrefix

ExpressionSpec == Init /\ [][ExpressionNext]_vars

\* ------------------------------------------------------- the claims' terms

\* p passes L's validation in store S.
Valid(S, L, p) == _validate(S, L, p).exc = "none"

\* Node n is between L's sentinels in store S.
LinkedIn(S, L, n) == n \in Range(Chain(S, L))

\* Sequence s without its entry at index i.
RemoveAt(s, i) == SubSeq(s, 1, i - 1) \o SubSeq(s, i + 1, Len(s))

\* Sequence s with x put in as its entry at index i.
InsertAt(s, i, x) == SubSeq(s, 1, i - 1) \o << x >> \o SubSeq(s, i, Len(s))

\* The index of x in sequence s, which holds it.
IndexOf(s, x) == CHOOSE i \in 1..Len(s) : s[i] = x

\* P(S, o) holds of the outcome o of each of the six operations that take a
\* position, called in store S on L with p (and with every element).
ForEachPositional(S, L, p, P(_, _)) ==
  /\ P(S, before(S, L, p))
  /\ P(S, after(S, L, p))
  /\ P(S, delete(S, L, p))
  /\ \A e \in Elements :
       /\ P(S, add_before(S, L, p, e))
       /\ P(S, add_after(S, L, p, e))
       /\ P(S, replace(S, L, p, e))

\* Outcome o is the stale-position error.
RaisesStale(S, o) == o.exc = "ValueError" /\ o.msg = StaleMsg

\* Outcome o is an error that left store S as it was.
RaisesUntouched(S, o) == o.exc # "none" /\ o.heap = S.heap /\ o.size = S.size

\* The node of position p was removed by a delete.
Stale(p) == \E q \in deleted : q.node = p.node

\* Everything the client may hold: what it was ever given, and None.
Held == issued \cup Args

\* ---------------------------------------------------------------- claims

C1_ValidWhileLinked ==
  \A p \in issued :
    Valid(Store, p.container, p) <=> LinkedIn(Store, p.container, p.node)

C1_InvalidatedOnlyByOwnDelete ==
  \A p \in issued :
    (Valid(Store, p.container, p) /\ ~Valid(Store, p.container, p)')
      => \E q \in Args :
           /\ q.type = "Position" /\ q.node = p.node
           /\ Delete(p.container, q)

\* C1: a Position issued by list L passes L's validation exactly while its
\* node is linked in L's chain, and a step takes a valid position to an
\* invalid one only when it is a delete of that position's own node: replace,
\* the four insertions and the delete of any other node leave it valid.
C1_PositionValidity ==
  []C1_ValidWhileLinked /\ [][C1_InvalidatedOnlyByOwnDelete]_vars

\* C1's case: a list holds a valid position and another position of it has
\* been deleted, after three adds to that list.
C1_Witness ==
  \E p \in issued, q \in deleted :
    /\ p.container = q.container
    /\ Valid(Store, p.container, p)
    /\ ~Valid(Store, q.container, q)
    /\ adds[p.container] = 3
    /\ size[p.container] = 2

\* C2: once delete(p) has returned, replace, before, after, add_before,
\* add_after and delete called with p on p's list raise the stale-position
\* error 'p is no longer valid', in every later state.
C2_StaleAfterDelete ==
  \A p \in deleted : ForEachPositional(Store, p.container, p, RaisesStale)

\* C2's case: the client still holds two deleted positions of one list (the
\* delete of the second came after the delete of the first) and the list
\* still has an element.
C2_Witness ==
  /\ slots["p"] \in deleted
  /\ slots["q"] \in deleted
  /\ slots["p"] # slots["q"]
  /\ slots["p"].container = slots["q"].container
  /\ size[slots["p"].container] = 1

\* C3: replace(p, x) on a valid position returns the element stored at p before
\* the call and stores x there; the sizes, every node's links, the elements of
\* all other nodes, and which positions validate on which list stay the same.
C3_ReplaceFrame ==
  \A L \in Lists, p \in Held, x \in Elements :
    Valid(Store, L, p)
      => LET o == replace(Store, L, p, x)
         IN  /\ o.exc = "none"
             /\ o.value = heap[p.node].element
             /\ o.heap[p.node].element = x
             /\ o.size = size
             /\ Len(o.heap) = Len(heap)
             /\ \A n \in 1..Len(heap) :
                  /\ o.heap[n].prev = heap[n].prev
                  /\ o.heap[n].next = heap[n].next
                  /\ n # p.node => o.heap[n].element = heap[n].element
             /\ \A M \in Lists, q \in Held : Valid(o, M, q) <=> Valid(Store, M, q)

\* C3's case: the client holds a valid position of a list of two and a stale
\* position of the same list, and a replace at the valid one changes the
\* list's element sequence.
C3_Witness ==
  \E L \in Lists, x \in Elements :
    /\ size[L] = 2
    /\ Valid(Store, L, slots["p"])
    /\ slots["q"].container = L /\ Stale(slots["q"])
    /\ replace(Store, L, slots["p"], x).exc = "none"
    /\ replace(Store, L, slots["p"], x).value # x
    /\ ElementsOf(replace(Store, L, slots["p"], x), L) # ElementsOf(Store, L)

\* C4: before, after, add_before, add_after, delete and replace called with an
\* argument that is not a Position, belongs to another list or is stale raise
\* an error and leave the nodes, their links and elements, and the sizes as
\* they were.
C4_ErrorLeavesListUnchanged ==
  \A L \in Lists, p \in Held :
    (p.type # "Position" \/ p.container # L \/ Stale(p))
      => ForEachPositional(Store, L, p, RaisesUntouched)

\* C4's case: a non-empty list whose client holds a stale position of it and a
\* valid position of the other, non-empty list (None can always be passed).
C4_Witness ==
  \E L \in Lists :
    /\ size[L] >= 1
    /\ slots["p"].type = "Position" /\ slots["p"].container = L /\ Stale(slots["p"])
    /\ slots["q"].type = "Position" /\ slots["q"].container # L
    /\ Valid(Store, slots["q"].container, slots["q"])

\* C5: for distinct lists A and B and a position p valid in A, B.delete(p)
\* raises the wrong-container error; the sizes and the element sequences of A
\* and B are as before, and p is still valid in A.
C5_CrossContainerDelete ==
  \A A \in Lists, B \in Lists, p \in Held :
    (A # B /\ p.type = "Position" /\ p.container = A /\ LinkedIn(Store, A, p.node))
      => LET o == delete(Store, B, p)
         IN  /\ o.exc = "ValueError" /\ o.msg = BelongMsg
             /\ o.size = size
             /\ ElementsOf(o, A) = ElementsOf(Store, A)
             /\ ElementsOf(o, B) = ElementsOf(Store, B)
             /\ Valid(o, A, p)
             /\ LinkedIn(o, A, p.node)

\* C5's case: the client holds a valid position of a list with two elements
\* while the other list is not empty either.
C5_Witness ==
  \E A \in Lists, B \in Lists :
    /\ A # B
    /\ slots["p"].type = "Position" /\ slots["p"].container = A
    /\ Valid(Store, A, slots["p"])
    /\ size[A] = 2
    /\ size[B] = 1

\* C6: len(L) is the number of adds on L that returned minus the number of
\* deletes on L that returned, and is never negative; a delete that raises
\* leaves the nodes and the sizes as they were.  (adds counts every add
\* operation; in a run of add_first, add_last and delete it counts those.)
C6_LenIsAddsMinusDeletes ==
  \A L \in Lists :
    /\ __len__(Store, L) = adds[L] - deletes[L]
    /\ __len__(Store, L) >= 0
    /\ \A p \in Held :
         delete(Store, L, p).exc # "none"
           => delete(Store, L, p).heap = heap /\ delete(Store, L, p).size = size

\* C6's case: three adds and two deletes on one list, whose client still holds
\* a deleted position (a delete of it fails).
C6_Witness ==
  \E L \in Lists :
    /\ adds[L] = 3
    /\ deletes[L] = 2
    /\ __len__(Store, L) = 1
    /\ slots["p"].container = L /\ Stale(slots["p"])
    /\ delete(Store, L, slots["p"]).exc # "none"

\* C7: a delete(p) that returns decrements the size by one and leaves every
\* position that references p's node, however the client came by it, failing
\* in all six positional operations without effect; so no node is deleted
\* twice: the deleted nodes are as many as the deletes that returned.
C7_DeleteInvalidatesAliases ==
  /\ \A L \in Lists, p \in Held :
       LET o == delete(Store, L, p)
       IN  o.exc = "none"
             => /\ o.size[L] = size[L] - 1
                /\ \A q \in Held :
                     (q.type = "Position" /\ q.node = p.node)
                       => ForEachPositional(o, L, q, RaisesUntouched)
  /\ Cardinality({q.node : q \in deleted}) = deletes["A"] + deletes["B"]

\* C7's case: both client variables reference one node (one from the add, one
\* from a lookup), the node has been deleted, and the list is not empty.
C7_Witness ==
  /\ slots["p"] = slots["q"]
  /\ slots["p"] \in deleted
  /\ size[slots["p"].container] >= 1

\* C8: delete(p) on a valid position returns the element stored at p, and the
\* list's nodes and elements afterwards are those before with the entry at
\* p's place removed and the rest in the same order; the other list is as it was.
C8_DeleteRemovesOne ==
  \A L \in Lists, p \in Held :
    Valid(Store, L, p)
      => LET o == delete(Store, L, p)
             i == IndexOf(Chain(Store, L), p.node)
         IN  /\ o.exc = "none"
             /\ o.value = ElementsOf(Store, L)[i]
             /\ o.value = element(Store, p)
             /\ Chain(o, L) = RemoveAt(Chain(Store, L), i)
             /\ ElementsOf(o, L) = RemoveAt(ElementsOf(Store, L), i)
             /\ \A M \in Lists \ {L} : ElementsOf(o, M) = ElementsOf(Store, M)

\* C8's case: after three adds and one delete a list holds the elements 1, 2
\* in that order, and a delete of its first position leaves 2 in front.
C8_Witness ==
  \E L \in Lists :
    /\ adds[L] = 3
    /\ deletes[L] = 1
    /\ ElementsOf(Store, L) = << 1, 2 >>
    /\ \E q \in deleted : q.container = L
    /\ slots["p"] = first(Store, L).value
    /\ delete(Store, L, slots["p"]).value = 1
    /\ element(delete(Store, L, slots["p"]),
               first(delete(Store, L, slots["p"]), L).value) = 2

\* C9: add_first(e) puts e in front of the element sequence and returns a
\* position equal to first(); add_last(e) puts e behind it and returns a
\* position equal to last(); the returned position's element() is e.
C9_AddAtEnds ==
  \A L \in Lists, e \in Elements :
    LET f == add_first(Store, L, e)
        l == add_last(Store, L, e)
    IN  /\ f.exc = "none"
        /\ ElementsOf(f, L) = << e >> \o ElementsOf(Store, L)
        /\ PositionEq(f.value, first(f, L).value)
        /\ element(f, f.value) = e
        /\ l.exc = "none"
        /\ ElementsOf(l, L) = ElementsOf(Store, L) \o << e >>
        /\ PositionEq(l.value, last(l, L).value)
        /\ element(l, l.value) = e

\* C9's case: a list of three whose client holds the first position, with
\* element 1, and the last, with element 2.
C9_Witness ==
  \E L \in Lists :
    /\ size[L] = 3
    /\ PositionEq(slots["p"], first(Store, L).value)
    /\ element(Store, slots["p"]) = 1
    /\ PositionEq(slots["q"], last(Store, L).value)
    /\ element(Store, slots["q"]) = 2

\* C10: for a valid position p, add_before(p, e) returns a new position q with
\* after(q) == p and before(p) == q, and add_after(p, e) returns q with
\* before(q) == p and after(p) == q; the new node stands right before (right
\* after) p's and the other nodes keep their order, and p stays valid with
\* its element.
C10_AddBesidePosition ==
  \A L \in Lists, p \in Held, e \in Elements :
    Valid(Store, L, p)
      => LET i == IndexOf(Chain(Store, L), p.node)
             b == add_before(Store, L, p, e)
             a == add_after(Store, L, p, e)
         IN  /\ b.exc = "none"
             /\ b.value.type = "Position" /\ b.value \notin issued
             /\ PositionEq(after(b, L, b.value).value, p)
             /\ PositionEq(before(b, L, p).value, b.value)
             /\ Chain(b, L) = InsertAt(Chain(Store, L), i, b.value.node)
             /\ ElementsOf(b, L) = InsertAt(ElementsOf(Store, L), i, e)
             /\ Valid(b, L, p) /\ element(b, p) = element(Store, p)
             /\ a.exc = "none"
             /\ a.value.type = "Position" /\ a.value \notin issued
             /\ PositionEq(before(a, L, a.value).value, p)
             /\ PositionEq(after(a, L, p).value, a.value)
             /\ Chain(a, L) = InsertAt(Chain(Store, L), i + 1, a.value.node)
             /\ ElementsOf(a, L) = InsertAt(ElementsOf(Store, L), i + 1, e)
             /\ Valid(a, L, p) /\ element(a, p) = element(Store, p)

\* C10's case: in a list of three the client holds p and a newer q right
\* before it, q itself standing after an older node: q went in between the two.
C10_Witness ==
  \E L \in Lists :
    /\ size[L] = 3
    /\ Valid(Store, L, slots["p"]) /\ Valid(Store, L, slots["q"])
    /\ after(Store, L, slots["q"]).value = slots["p"]
    /\ before(Store, L, slots["q"]).value # NoneValue
    /\ slots["q"].node > slots["p"].node
    /\ slots["q"].node > before(Store, L, slots["q"]).value.node

\* C11: for every valid position p, after(before(p)) == p when before(p) is not
\* None and before(after(p)) == p when after(p) is not None; before(p) is None
\* exactly when p == first() and after(p) is None exactly when p == last().
C11_BeforeAfterInverse ==
  \A L \in Lists, p \in Held :
    Valid(Store, L, p)
      => LET b == before(Store, L, p)
             a == after(Store, L, p)
         IN  /\ b.exc = "none" /\ a.exc = "none"
             /\ b.value # NoneValue => PositionEq(after(Store, L, b.value).value, p)
             /\ a.value # NoneValue => PositionEq(before(Store, L, a.value).value, p)
             /\ b.value = NoneValue <=> PositionEq(p, first(Store, L).value)
             /\ a.value = NoneValue <=> PositionEq(p, last(Store, L).value)

\* C11's case: the client holds the middle position of a list of three (it
\* has a position on either side) and the list's first position.
C11_Witness ==
  \E L \in Lists :
    /\ size[L] = 3
    /\ Valid(Store, L, slots["p"])
    /\ before(Store, L, slots["p"]).value # NoneValue
    /\ after(Store, L, slots["p"]).value # NoneValue
    /\ PositionEq(slots["q"], first(Store, L).value)
    /\ after(Store, L, slots["q"]).value = slots["p"]

\* C12: first() returns None iff the list is empty (len() == 0), and so does
\* last(); neither raises, and what they return otherwise is a valid position.
C12_FirstLastNoneIffEmpty ==
  \A L \in Lists :
    LET f == first(Store, L)
        l == last(Store, L)
    IN  /\ f.exc = "none" /\ l.exc = "none"
        /\ f.value = NoneValue <=> __len__(Store, L) = 0
        /\ l.value = NoneValue <=> __len__(Store, L) = 0
        /\ is_empty(Store, L) <=> __len__(Store, L) = 0
        /\ f.value # NoneValue => Valid(Store, L, f.value)
        /\ l.value # NoneValue => Valid(Store, L, l.value)

\* C12's case: a list that is empty again after an add and a delete, beside a
\* list that is not empty.
C12_Witness ==
  \E L \in Lists, M \in Lists :
    /\ adds[L] >= 1 /\ size[L] = 0
    /\ first(Store, L).value = NoneValue /\ last(Store, L).value = NoneValue
    /\ size[M] = 2
    /\ first(Store, M).value # last(Store, M).value

\* C13 as stated: for a list of any length, before(first()) returns None and
\* after(last()) returns None.
C13_BoundaryAnyLength ==
  \A L \in Lists :
    /\ before(Store, L, first(Store, L).value).exc = "none"
    /\ before(Store, L, first(Store, L).value).value = NoneValue
    /\ after(Store, L, last(Store, L).value).exc = "none"
    /\ after(Store, L, last(Store, L).value).value = NoneValue

\* C13, amended: for a list that is not empty, before(first()) returns None
\* and after(last()) returns None; on an empty list first() and last() are None
\* and before(first()) and after(last()) raise TypeError, the list unchanged.
C13_BoundaryNonEmpty ==
  \A L \in Lists :
    LET b == before(Store, L, first(Store, L).value)
        a == after(Store, L, last(Store, L).value)
    IN  IF is_empty(Store, L)
        THEN /\ b.exc = "TypeError" /\ b.msg = TypeMsg /\ RaisesUntouched(Store, b)
             /\ a.exc = "TypeError" /\ a.msg = TypeMsg /\ RaisesUntouched(Store, a)
        ELSE /\ b.exc = "none" /\ b.value = NoneValue
             /\ a.exc = "none" /\ a.value = NoneValue

\* C13's case: a list of two, beside a list that is empty again after an add
\* and a delete.
C13_Witness ==
  \E L \in Lists, M \in Lists :
    /\ size[L] = 2
    /\ before(Store, L, first(Store, L).value).value = NoneValue
    /\ first(Store, L).value # NoneValue
    /\ adds[M] = 1 /\ size[M] = 0
    /\ before(Store, M, first(Store, M).value).exc = "TypeError"

\* C14: two Positions compare equal iff they reference the same node: valid
\* positions are equal exactly when they stand at the same place of the chain,
\* a position the client was given equals first() (last()) exactly when its
\* node is the first (last) of the chain, equal positions read the same
\* element, and positions of different nodes are unequal whatever they store.
C14_EqualIffSameNode ==
  \A L \in Lists, p \in Held, q \in Held :
    (Valid(Store, L, p) /\ Valid(Store, L, q))
      => LET c == Chain(Store, L)
         IN  /\ PositionEq(p, q) <=> IndexOf(c, p.node) = IndexOf(c, q.node)
             /\ PositionEq(p, first(Store, L).value) <=> IndexOf(c, p.node) = 1
             /\ PositionEq(p, last(Store, L).value) <=> IndexOf(c, p.node) = Len(c)
             /\ PositionEq(p, q) => element(Store, p) = element(Store, q)
             /\ p.node # q.node => ~PositionEq(p, q) /\ ~PositionEq(q, p)

\* C14's case: the client holds two positions of one list, of different nodes
\* that store equal elements, one of them being what first() returns.
C14_Witness ==
  \E L \in Lists :
    /\ Valid(Store, L, slots["p"]) /\ Valid(Store, L, slots["q"])
    /\ slots["p"].node # slots["q"].node
    /\ element(Store, slots["p"]) = element(Store, slots["q"])
    /\ PositionEq(slots["p"], first(Store, L).value)
    /\ ~PositionEq(slots["p"], slots["q"])

\* The outcome of the call p.element(): the node's element field is read and
\* returned, and nothing is checked.
ElementCall(S, p) == Return(S.heap, S.size, element(S, p))

\* Outcome o is an error.
Fails(S, o) == o.exc # "none"

\* C15 as stated: every use of a deleted position fails, the six positional
\* operations and p.element() alike, and none returns a value.
C15_EveryUseOfStaleFails ==
  \A p \in deleted :
    /\ ForEachPositional(Store, p.container, p, Fails)
    /\ Fails(Store, ElementCall(Store, p))

\* C15, amended: every use of a deleted position p as the argument of a list
\* operation (before, after, add_before, add_after, delete, replace) fails and
\* changes nothing; p.element() does not fail: it returns None, the element
\* field that the delete cleared, never the element stored before the delete.
C15_StaleFailsButElementReturnsNone ==
  \A p \in deleted :
    /\ ForEachPositional(Store, p.container, p, RaisesUntouched)
    /\ ElementCall(Store, p).exc = "none"
    /\ ElementCall(Store, p).value = None
    /\ ElementCall(Store, p).value \notin Elements
    /\ ElementCall(Store, p).heap = heap

\* C15's case: the client holds a deleted position of a list that still has an
\* element, and a valid position of that list.
C15_Witness ==
  \E L \in Lists :
    /\ slots["p"] \in deleted /\ slots["p"].container = L
    /\ size[L] >= 1
    /\ Valid(Store, L, slots["q"])
    /\ element(Store, slots["q"]) \in Elements
    /\ ElementCall(Store, slots["p"]).value = None

\* The precondition of a positional operation of L that argument p violates,
\* told from what p is and from the deletes so far: the first of the three in
\* the order the code checks them, or "none".
Violation(L, p) ==
  IF p.type # "Position" THEN "type"
  ELSE IF p.container # L THEN "container"
  ELSE IF Stale(p) THEN "stale"
  ELSE "none"

\* Outcome o is the error for an argument that is no Position.
RaisesType(S, o) == o.exc = "TypeError" /\ o.msg = TypeMsg

\* Outcome o is the error for a Position of another container.
RaisesBelong(S, o) == o.exc = "ValueError" /\ o.msg = BelongMsg

\* C16 as stated: arguments that violate different preconditions make
\* _validate raise errors of different kinds.
C16_ThreeDistinctKinds ==
  \A L \in Lists, p \in Held, q \in Held :
    (/\ Violation(L, p) # "none"
     /\ Violation(L, q) # "none"
     /\ Violation(L, p) # Violation(L, q))
      => _validate(Store, L, p).exc # _validate(Store, L, q).exc

\* C16, amended: the three violations are reported as two error kinds, with
\* three messages: TypeError for an argument that is no Position, ValueError
\* for a Position of another container and ValueError for a stale Position.
\* All six positional operations report them so; a caller tells the three
\* apart from kind and message together.
C16_TwoKindsThreeMessages ==
  /\ \A L \in Lists, p \in Held :
       /\ Violation(L, p) = "type" => ForEachPositional(Store, L, p, RaisesType)
       /\ Violation(L, p) = "container" => ForEachPositional(Store, L, p, RaisesBelong)
       /\ Violation(L, p) = "stale" => ForEachPositional(Store, L, p, RaisesStale)
       /\ Violation(L, p) = "none" => _validate(Store, L, p).exc = "none"
  /\ \A L \in Lists, p \in Held, q \in Held :
       (/\ Violation(L, p) # "none"
        /\ Violation(L, q) # "none"
        /\ Violation(L, p) # Violation(L, q))
         => /\ _validate(Store, L, p).msg # _validate(Store, L, q).msg
            /\ _validate(Store, L, p).exc = _validate(Store, L, q).exc
                 <=> "type" \notin {Violation(L, p), Violation(L, q)}

\* C16's case: the client holds a stale position of each list: for either
\* list one is stale and the other is of another container (and stale too),
\* and None is no Position.
C16_Witness ==
  /\ slots["p"] \in deleted /\ slots["q"] \in deleted
  /\ slots["p"].container # slots["q"].container
  /\ Violation(slots["p"].container, slots["p"]) = "stale"
  /\ Violation(slots["p"].container, slots["q"]) = "container"
  /\ Violation(slots["p"].container, NoneValue) = "type"

\* C17: a full iteration of a list that is not mutated meanwhile ends, without
\* raising, after yielding exactly len() values: the elements in chain order,
\* from that of first() to that of last(); it leaves the nodes and the size as
\* they were, and a new iteration started afterwards yields the same sequence.
C17_IterationYieldsChain ==
  \A L \in Lists :
    LET it == __iter__(Store, L)
    IN  /\ it.done /\ it.exc = "none"
        /\ Len(it.yielded) = __len__(Store, L)
        /\ it.yielded = ElementsOf(Store, L)
        /\ ~is_empty(Store, L)
             => /\ it.yielded[1] = element(Store, first(Store, L).value)
                /\ it.yielded[Len(it.yielded)] = element(Store, last(Store, L).value)
        /\ it.heap = heap /\ it.size = size
        /\ __iter__(it, L).yielded = it.yielded
        /\ __iter__(it, L).done

\* C17's case: a list of three, built with an add in the middle and holding
\* 1, 2, 1 in this order, beside positions the client still holds.
C17_Witness ==
  \E L \in Lists :
    /\ size[L] = 3
    /\ __iter__(Store, L).yielded = << 1, 2, 1 >>
    /\ Chain(Store, L)[2] > Chain(Store, L)[3]
    /\ Valid(Store, L, slots["p"])

\* Outcome o of a call on Deque L is the Empty error and left store S as it
\* was, with size 0 and L's sentinels linked to each other.
RaisesEmptyUntouched(S, L, o) ==
  /\ o.exc = "Empty" /\ o.msg = EmptyMsg
  /\ o.heap = S.heap /\ o.size = S.size
  /\ o.size[L] = 0
  /\ o.heap[Header(L)].next = Trailer(L)
  /\ o.heap[Trailer(L)].prev = Header(L)

\* C18: on an empty Deque, first(), last(), delete_first() and delete_last()
\* each raise Empty and leave the structure as it was: the size stays 0 and
\* the header and the trailer stay linked to each other.
C18_EmptyDequeRaises ==
  \A L \in Lists :
    is_empty(dq, L)
      => /\ RaisesEmptyUntouched(dq, L, Deque_first(dq, L))
         /\ RaisesEmptyUntouched(dq, L, Deque_last(dq, L))
         /\ RaisesEmptyUntouched(dq, L, delete_first(dq, L))
         /\ RaisesEmptyUntouched(dq, L, delete_last(dq, L))

\* C18's case: a Deque that is empty again after two inserts and two deletes,
\* the last call having raised Empty, beside a Deque that is not empty.
C18_Witness ==
  \E L \in Lists, M \in Lists :
    /\ is_empty(dq, L)
    /\ dq.heap[Len(dq.heap)].next = None
    /\ dq.heap[Len(dq.heap) - 1].next = None
    /\ dqRet.exc = "Empty"
    /\ __len__(dq, M) = 2

\* C19: the Deque's front-to-back content is the abstract sequence driven by
\* the same calls, and each call returns or raises what it does on the
\* abstract sequence: delete_first and delete_last return and remove the
\* element at their end, first() and last() return the ends and change nothing.
C19_DequeRefinesSequence ==
  /\ dqRet = dqAbsRet
  /\ \A L \in Lists :
       /\ ElementsOf(dq, L) = dqAbs[L]
       /\ __len__(dq, L) = Len(dqAbs[L])
       /\ ~is_empty(dq, L)
            => /\ Deque_first(dq, L).value = Head(dqAbs[L])
               /\ Deque_last(dq, L).value = dqAbs[L][Len(dqAbs[L])]
               /\ ElementsOf(Deque_first(dq, L), L) = dqAbs[L]
               /\ ElementsOf(Deque_last(dq, L), L) = dqAbs[L]
               /\ delete_first(dq, L).value = Head(dqAbs[L])
               /\ ElementsOf(delete_first(dq, L), L) = Tail(dqAbs[L])
               /\ delete_last(dq, L).value = dqAbs[L][Len(dqAbs[L])]
               /\ ElementsOf(delete_last(dq, L), L)
                    = SubSeq(dqAbs[L], 1, Len(dqAbs[L]) - 1)

\* C19's case: a Deque holding 1, 2, 1 after four inserts and a delete that
\* returned 2.
C19_Witness ==
  \E L \in Lists :
    /\ dqAbs[L] = << 1, 2, 1 >>
    /\ Len(dq.heap) = Len(InitHeap) + MaxDequeNodes
    /\ dqRet = [exc |-> "none", value |-> 2]
    /\ \A M \in Lists \ {L} : is_empty(dq, M)

\* The stored elements of queue Q from the front on, read circularly.
Window(Q) == [i \in 1..Q.size |-> Q.data[PyMod(Q.front + i - 1, Q.capacity) + 1]]

\* C20: over the successful enqueues and dequeues of a CircularQueue, of any
\* capacity, the stored elements from the front on are the elements enqueued
\* and not yet dequeued, oldest first; dequeue returns and removes the oldest
\* and first() returns it and changes nothing, also once the front index and
\* the insertion index have wrapped past capacity - 1.
C20_CircularQueueFifo ==
  /\ cqRet.exc = "none" => cqRet.value = cqWant
  /\ CircularQueue_len(cq) = Len(cqFifo)
  /\ Window(cq) = cqFifo
  /\ cq.capacity > 0 => cq.front \in 0..(cq.capacity - 1)
  /\ cqFifo # << >>
       => /\ CircularQueue_first(cq) = QReturn(cq, Head(cqFifo))
          /\ CircularQueue_dequeue(cq).exc = "none"
          /\ CircularQueue_dequeue(cq).value = Head(cqFifo)
          /\ Window(CircularQueue_dequeue(cq).q) = Tail(cqFifo)

\* C20's case: both indices have wrapped, the stored elements lie across the
\* end of the buffer, the two oldest differ, and the last call returned an
\* element.
C20_Witness ==
  /\ cqWraps.front /\ cqWraps.avail
  /\ cq.capacity = MaxCapacity
  /\ cq.size >= 2
  /\ cq.front + cq.size > cq.capacity
  /\ cqFifo[1] # cqFifo[2]
  /\ cqRet.exc = "none" /\ cqRet.value \in Elements

\* C21: enqueue on a CircularQueue and enqueue_first, enqueue_last on a
\* CircularDeque raise Full exactly when size = capacity, and then leave the
\* buffer, the front index and the size as they were; a call that stores an
\* element keeps every element stored before it; and in every reachable
\* state 0 <= size <= capacity.
C21_FullExactlyAtCapacity ==
  /\ 0 <= cq.size /\ cq.size <= cq.capacity
  /\ 0 <= cd.size /\ cd.size <= cd.capacity
  /\ \A e \in Elements :
       LET q == CircularQueue_enqueue(cq, e)
           f == CircularDeque_enqueue_first(cd, e)
           l == CircularDeque_enqueue_last(cd, e)
       IN  /\ (q.exc = "Full") <=> (cq.size = cq.capacity)
           /\ (f.exc = "Full") <=> (cd.size = cd.capacity)
           /\ (l.exc = "Full") <=> (cd.size = cd.capacity)
           /\ q.exc = "Full" => q.q = cq
           /\ f.exc = "Full" => f.q = cd
           /\ l.exc = "Full" => l.q = cd
           /\ q.exc = "none" => Window(q.q) = Append(Window(cq), e)
           /\ f.exc = "none" => Window(f.q) = << e >> \o Window(cd)
           /\ l.exc = "none" => Window(l.q) = Append(Window(cd), e)

\* C22: the CircularDeque's front-to-back content is the abstract sequence
\* bounded by its capacity and driven by the same calls; a call that returns
\* a value or raises Empty on either does the same on the other, and
\* first(), last(), dequeue_first() and dequeue_last() return the ends of the
\* abstract sequence, the dequeues removing them, also once enqueue_first has
\* wrapped the front index from 0 to capacity - 1 and the rear index has
\* wrapped.
C22_CircularDequeRefinesSequence ==
  /\ (cdRet.exc \in {"none", "Empty"} \/ cdAbsRet.exc \in {"none", "Empty"})
       => cdRet = cdAbsRet
  /\ Window(cd) = cdAbs
  /\ CircularDeque_len(cd) = Len(cdAbs)
  /\ cd.capacity >= 0 => Len(cdAbs) <= cd.capacity
  /\ cdAbs # << >>
       => /\ CircularDeque_first(cd) = QReturn(cd, Head(cdAbs))
          /\ CircularDeque_last(cd) = QReturn(cd, cdAbs[Len(cdAbs)])
          /\ CircularDeque_dequeue_first(cd).exc = "none"
          /\ CircularDeque_dequeue_first(cd).value = Head(cdAbs)
          /\ Window(CircularDeque_dequeue_first(cd).q) = Tail(cdAbs)
          /\ CircularDeque_dequeue_last(cd).exc = "none"
          /\ CircularDeque_dequeue_last(cd).value = cdAbs[Len(cdAbs)]
          /\ Window(CircularDeque_dequeue_last(cd).q)
               = SubSeq(cdAbs, 1, Len(cdAbs) - 1)

\* C22's case: enqueue_first has wrapped the front index from 0 to
\* capacity - 1 and enqueue_last has wrapped the rear index, the stored
\* elements lie across the end of the buffer with different elements at the
\* two ends, and the last call returned an element.
C22_Witness ==
  /\ cdWraps.front /\ cdWraps.rear
  /\ cd.capacity = MaxCapacity
  /\ cd.size >= 2
  /\ cd.front + cd.size > cd.capacity
  /\ cdAbs[1] # cdAbs[Len(cdAbs)]
  /\ cdRet.exc = "none" /\ cdRet.value \in Elements

\* The stored elements of ArrayQueue Q from the front on, read circularly.
ArrayQueueWindow(Q) ==
  [i \in 1..Q.size |-> Q.data[PyMod(Q.front + i - 1, Len(Q.data)) + 1]]

\* C23: enqueue on an ArrayQueue always returns and appends its element to
\* the stored elements, which are the elements enqueued and not yet dequeued,
\* oldest first; when size = capacity it doubles the storage and leaves the
\* front index 0, wherever the front index was, and otherwise it keeps the
\* storage and the front index; first() and dequeue return the oldest.
C23_EnqueueNeverFails ==
  /\ ArrayQueueWindow(aq) = aqFifo
  /\ ArrayQueue_len(aq) = Len(aqFifo)
  /\ aqRet.exc = "none" => aqRet.value = aqWant
  /\ \A e \in 1..MaxEnqueues :
       LET o == ArrayQueue_enqueue(aq, e)
       IN  /\ o.exc = "none"
           /\ ArrayQueueWindow(o.q) = Append(aqFifo, e)
           /\ IF aq.size = Len(aq.data)
              THEN Len(o.q.data) = 2 * Len(aq.data) /\ o.q.front = 0
              ELSE Len(o.q.data) = Len(aq.data) /\ o.q.front = aq.front
  /\ aqFifo # << >>
       => /\ ArrayQueue_first(aq) = QReturn(aq, Head(aqFifo))
          /\ ArrayQueue_dequeue(aq).value = Head(aqFifo)
          /\ ArrayQueueWindow(ArrayQueue_dequeue(aq).q) = Tail(aqFifo)

\* C23's case: the queue was resized when its front index was not 0, so its
\* elements lay across the end of the full buffer, and a dequeue after the
\* resize has returned an element.
C23_Witness ==
  /\ aqMoved.resized /\ aqMoved.front # 0
  /\ Len(aq.data) = 2 * DEFAULT_CAPACITY
  /\ aqRet.exc = "none" /\ aqRet.value # None
  /\ aq.front > 0
  /\ aq.size >= 2

\* C24: the LinkedQueue's elements from head to tail are the items it was
\* built from followed by the elements enqueued, less those dequeued, oldest
\* first; dequeue returns and removes the oldest, first() returns the oldest
\* and last() the newest and both change nothing; and so again once the
\* queue has become empty and has been refilled.  The order kept in lqFifo
\* is that order of arrival, extended in order by enqueue_many, turned over
\* by reverse() and emptied by clear().
C24_LinkedQueueFifo ==
  /\ lqRet.exc = "none" => lqRet.value = lqWant
  /\ LinkedQueue_list(lq) = lqFifo
  /\ LinkedQueue_len(lq) = Len(lqFifo)
  /\ LinkedQueue_list(LinkedQueue(lqPast.built)) = lqPast.built
  /\ IF lqFifo = << >>
     THEN /\ LinkedQueue_first(lq).exc = "Empty"
          /\ LinkedQueue_last(lq).exc = "Empty"
          /\ LinkedQueue_dequeue(lq).exc = "Empty"
     ELSE /\ LinkedQueue_first(lq) = QReturn(lq, Head(lqFifo))
          /\ LinkedQueue_last(lq) = QReturn(lq, lqFifo[Len(lqFifo)])
          /\ LinkedQueue_dequeue(lq).exc = "none"
          /\ LinkedQueue_dequeue(lq).value = Head(lqFifo)
          /\ LinkedQueue_list(LinkedQueue_dequeue(lq).q) = Tail(lqFifo)

\* C24's case: a queue built from the items 1, 2 was emptied by dequeues and
\* refilled, holds two different elements, and the last call, a dequeue or
\* first() or last(), returned an element.
C24_Witness ==
  /\ lqPast.built = << 1, 2 >>
  /\ lqPast.emptied /\ lqPast.refilled
  /\ Len(lqFifo) = 2 /\ lqFifo[1] # lqFifo[2]
  /\ lqRet.exc = "none" /\ lqRet.value \in Elements

\* Queue Q after k calls of rotate().
RECURSIVE RotateTimes(_, _)
RotateTimes(Q, k) ==
  IF k <= 0 THEN Q ELSE RotateTimes(LinkedListCircularQueue_rotate(Q).q, k - 1)

\* C26: rotate() on a LinkedListCircularQueue holding x1, x2, ..., xn from
\* front to back leaves x2, ..., xn, x1: the front element becomes the last
\* and the second the first; the size stays, a queue of size <= 1 is left as
\* it is, and size calls of rotate() restore the order.
C26_RotateMovesFrontToBack ==
  LET xs == lcqFifo
      o == LinkedListCircularQueue_rotate(lcq)
  IN  /\ LinkedListCircularQueue_list(lcq) = QReturnMany(lcq, xs)
      /\ o.exc = "none"
      /\ LinkedListCircularQueue_list(o.q) = QReturnMany(o.q, Rotation(xs))
      /\ LinkedListCircularQueue_len(o.q) = LinkedListCircularQueue_len(lcq)
      /\ LinkedListCircularQueue_len(lcq) <= 1 => o.q = lcq
      /\ LinkedListCircularQueue_len(lcq) >= 2
           => /\ LinkedListCircularQueue_first(o.q).value = xs[2]
              /\ LinkedListCircularQueue_last(o.q).value = xs[1]
      /\ LinkedListCircularQueue_list(RotateTimes(lcq, LinkedListCircularQueue_len(lcq)))
           .value = xs

\* C26's case: a queue of three elements, not all the same, after two calls
\* of rotate() in a row.
C26_Witness ==
  /\ LinkedListCircularQueue_len(lcq) = 3
  /\ lcqTurns = 2
  /\ lcqFifo[1] # lcqFifo[2]
  /\ lcqRet.exc = "none"

\* Sequence s from its last element to its first.
Reversed(s) == [i \in 1..Len(s) |-> s[Len(s) + 1 - i]]

\* What C25 says of a batch removal of n with outcome o from container Q
\* of len elements, listed in order of removal as xs, where rest lists the
\* container the outcome leaves.
AllOrNothing(o, Q, len, xs, rest, n) ==
  IF len = 0
  THEN o.exc = "Empty" /\ o.q = Q
  ELSE IF n < 0 \/ n > len
  THEN o.exc = "ValueError" /\ o.q = Q
  ELSE /\ o.exc = "none"
       /\ o.value = SubSeq(xs, 1, n)
       /\ rest = SubSeq(xs, n + 1, Len(xs))

\* C25: LinkedQueue.dequeue_many(n), LinkedListCircularQueue.dequeue_many(n)
\* and LinkedStack.pop_many(n) raise Empty on an empty container and
\* ValueError when n < 0 or n > size, and then remove nothing; otherwise
\* they remove n elements, the first n in order of removal, and return them
\* in that order.
C25_BatchRemovalAllOrNothing ==
  /\ LinkedQueue_list(lq) = lqFifo
  /\ LinkedListCircularQueue_list(lcq) = QReturnMany(lcq, lcqFifo)
  /\ LinkedStack_list(ls) = Reversed(stLifo)
  /\ \A n \in Counts :
       /\ AllOrNothing(LinkedQueue_dequeue_many(lq, n), lq, LinkedQueue_len(lq),
                       lqFifo, LinkedQueue_list(LinkedQueue_dequeue_many(lq, n).q), n)
       /\ AllOrNothing(LinkedListCircularQueue_dequeue_many(lcq, n), lcq,
                       LinkedListCircularQueue_len(lcq), lcqFifo,
                       LinkedListCircularQueue_list(
                         LinkedListCircularQueue_dequeue_many(lcq, n).q).value, n)
       /\ AllOrNothing(LinkedStack_pop_many(ls, n), ls, LinkedStack_len(ls),
                       Reversed(stLifo),
                       LinkedStack_list(LinkedStack_pop_many(ls, n).q), n)

\* C25's case: a batch removal of two has returned two different elements
\* from each of the three containers, in order of removal, and left one
\* element in each.
C25_Witness ==
  /\ lqRet.batch = << 1, 2 >>
  /\ lcqRet.batch = << 1, 2 >>
  /\ lsRet.batch = << 2, 1 >>
  /\ LinkedQueue_len(lq) = 1
  /\ LinkedListCircularQueue_len(lcq) = 1
  /\ LinkedStack_len(ls) = 1

\* C27: a LinkedStack and an ArrayStack that have had the same calls hold
\* the same elements, the pushed and not yet popped, and answer the next
\* call alike: len and is_empty agree, push(e) makes e the top of both, top()
\* and pop() return the newest of those elements from both, or, when there is
\* none, raise Empty and EmptyStack and leave both stacks as they were.  The
\* order kept in stLifo is the order of the pushes, extended in order by
\* push_many, turned over by reverse() and emptied by clear(), each mirrored
\* on the ArrayStack by pushes and pops.
C27_StacksAgree ==
  /\ Reversed(LinkedStack_list(ls)) = stLifo
  /\ ast = stLifo
  /\ LinkedStack_len(ls) = ArrayStack_len(ast)
  /\ LinkedStack_is_empty(ls) = ArrayStack_is_empty(ast)
  /\ lsRet.exc = "none" => lsRet.value = stWant
  /\ astRet.exc = "none" => astRet.value = stWant
  /\ astRet.exc = "EmptyStack" => lsRet.exc = "Empty"
  /\ \A e \in Elements :
       /\ LinkedStack_top(LinkedStack_push(ls, e).q).value = e
       /\ ArrayStack_top(ArrayStack_push(ast, e).q).value = e
       /\ Reversed(LinkedStack_list(LinkedStack_push(ls, e).q))
            = ArrayStack_push(ast, e).q
  /\ IF stLifo = << >>
     THEN /\ LinkedStack_top(ls) = QRaise(ls, "Empty", CannotTopMsg)
          /\ LinkedStack_pop(ls) = QRaise(ls, "Empty", CannotPopMsg)
          /\ ArrayStack_top(ast) = QRaise(ast, "EmptyStack", StackEmptyMsg)
          /\ ArrayStack_pop(ast) = QRaise(ast, "EmptyStack", StackEmptyMsg)
     ELSE /\ LinkedStack_top(ls) = QReturn(ls, Newest(stLifo))
          /\ ArrayStack_top(ast) = QReturn(ast, Newest(stLifo))
          /\ LinkedStack_pop(ls).exc = "none"
          /\ LinkedStack_pop(ls).value = Newest(stLifo)
          /\ ArrayStack_pop(ast).exc = "none"
          /\ ArrayStack_pop(ast).value = Newest(stLifo)
          /\ Reversed(LinkedStack_list(LinkedStack_pop(ls).q)) = ArrayStack_pop(ast).q

\* C27's case: after pushes and a pop() that returned the same element from
\* both, the stacks hold two different elements.
C27_Witness ==
  /\ lsRet.exc = "none" /\ lsRet.value \in Elements
  /\ astRet = [exc |-> "none", value |-> lsRet.value]
  /\ Len(ast) = 2 /\ ast[1] # ast[2]
  /\ Len(ls.nodes) > LinkedStack_len(ls)

\* The elements a string lists: its characters that are an element's str().
ListedItems(string) ==
  SelectSeq(string, LAMBDA c : \E e \in Elements : Str(e) = << c >>)

\* C28: str() of a LinkedStack that is not empty lists the stack's elements
\* from left to right, the rightmost being the top of the stack, the element
\* pop() returns next.
C28_StrEndsWithTop ==
  ~LinkedStack_is_empty(ls)
    => /\ Len(ListedItems(LinkedStack_str(ls))) = LinkedStack_len(ls)
       /\ << ListedItems(LinkedStack_str(ls))[LinkedStack_len(ls)] >>
            = Str(LinkedStack_pop(ls).value)

\* C29: for every well-formed infix expression over single-character
\* operands, the operators + - * / and balanced parentheses,
\* convert_infix_to_postfix returns the postfix form of that expression:
\* the operands in their order, * and / binding tighter than + and -,
\* operators of equal precedence grouped from the left, and parentheses
\* overriding precedence.
C29_PostfixForm ==
  exPostfix.exc # "not run" =>
    /\ exPostfix.exc = "none"
    /\ exPostfix.value = exWant.postfix

\* convert_infix_to_postfix has returned the postfix form of (a+3)*3, where
\* the parentheses override the precedence of *.
C29_Witness ==
  /\ exInfix = << "(", "a", "+", "3", ")", "*", "3" >>
  /\ exPostfix.exc = "none"
  /\ exPostfix.value = << "a", "3", "+", "3", "*" >>

\* C30: for every well-formed infix expression over single-digit operands
\* and the operators + - *, with or without parentheses, evaluate_prefix of
\* what convert_infix_to_prefix returns is the value of the expression under
\* the standard precedence and left-to-right grouping, and is what
\* evaluate_postfix returns on what convert_infix_to_postfix returns.
C30_PrefixDenotesTheExpression ==
  (exPrefixValue.exc # "not run" /\ exWant.value.known) =>
    /\ exPrefixValue.exc = "none"
    /\ exPrefixValue.value = exWant.value.n
    /\ exPostfixValue.exc = "none" =>
         exPrefixValue.value = exPostfixValue.value

\* The store of the two Deques is dq; that of the two PositionalLists is Store.
LinkedStores == {Store, dq}

\* The sentinels of L and the nodes between them in store S.
SentinelOrLive(S, L) == {Header(L), Trailer(L)} \cup Range(Chain(S, L))

\* n.next.prev is n, for node n of store S.
NextLinksBack(S, n) ==
  /\ S.heap[n].next # None
  /\ S.heap[S.heap[n].next].prev = n

\* n.prev.next is n, for node n of store S.
PrevLinksForward(S, n) ==
  /\ S.heap[n].prev # None
  /\ S.heap[S.heap[n].prev].next = n

\* C31: in every state reached through the public operations of the
\* PositionalLists and of the linked Deques the chain of each list is
\* doubly-linked consistent: for every node n that is a sentinel or is linked
\* between the sentinels, n.next.prev is n unless n is the trailer, and
\* n.prev.next is n unless n is the header.
C31_DoublyLinkedConsistent ==
  \A S \in LinkedStores, L \in Lists :
    \A n \in SentinelOrLive(S, L) :
      /\ n # Trailer(L) => NextLinksBack(S, n)
      /\ n # Header(L) => PrevLinksForward(S, n)

\* C31's case: a PositionalList holds two linked nodes after three insertions
\* and the deletion of one of the three, whose position the client still has.
C31_Witness ==
  \E L \in Lists :
    /\ adds[L] = 3 /\ deletes[L] = 1
    /\ Len(Chain(Store, L)) = 2
    /\ \E p \in deleted : p.container = L /\ p \in Args

\* The node reached from node n of heap h by k hops along next; None once a
\* None link is met.
RECURSIVE NthNext(_, _, _)
NthNext(h, n, k) ==
  IF k = 0 \/ n = None THEN n ELSE NthNext(h, h[n].next, k - 1)

\* The node reached from node n of heap h by k hops along prev; None once a
\* None link is met.
RECURSIVE NthPrev(_, _, _)
NthPrev(h, n, k) ==
  IF k = 0 \/ n = None THEN n ELSE NthPrev(h, h[n].prev, k - 1)

\* C32: in every reachable state the _size of each list is the number of nodes
\* strictly between its header and its trailer: the walk along next from the
\* header reaches the trailer after exactly _size + 1 hops, the walk along
\* prev from the trailer reaches the header after exactly _size + 1 hops, the
\* second walk visits the nodes of the first in reverse order, and neither
\* meets a None link.
C32_SizeIsChainLength ==
  \A S \in LinkedStores, L \in Lists :
    LET n == S.size[L]
    IN  /\ n >= 0
        /\ n = Len(Chain(S, L))
        /\ NthNext(S.heap, Header(L), n + 1) = Trailer(L)
        /\ NthPrev(S.heap, Trailer(L), n + 1) = Header(L)
        /\ \A k \in 0..n :
             /\ NthNext(S.heap, Header(L), k) \notin {None, Trailer(L)}
             /\ NthPrev(S.heap, Trailer(L), k) \notin {None, Header(L)}
             /\ NthNext(S.heap, Header(L), k) = NthPrev(S.heap, Trailer(L), n + 1 - k)

\* C32's case: a Deque holds two nodes after three insertions and a deletion,
\* and the other Deque is empty.
C32_Witness ==
  \E L \in Lists, M \in Lists :
    /\ dq.size[L] = 2 /\ dq.size[M] = 0
    /\ Len(dq.heap) = Len(InitHeap) + 3
    /\ \E n \in 1..Len(dq.heap) : n \notin Sentinels /\ dq.heap[n].next = None

\* The sentinels of L in store S are as constructed: they hold no element,
\* the header has a next and the trailer a prev.
SentinelsIntact(S, L) ==
  /\ S.heap[Header(L)].element = None
  /\ S.heap[Trailer(L)].element = None
  /\ S.heap[Header(L)].next # None
  /\ S.heap[Trailer(L)].prev # None

\* Outcome o is an error, or that of a call whose position p is on no sentinel
\* and that left the sentinels of every list intact.
SparesSentinels(p, o) ==
  o.exc = "none" =>
    /\ p.node \notin Sentinels
    /\ \A M \in Lists : SentinelsIntact(o, M)

\* C33: no Position that a PositionalList operation has returned references
\* a header or a trailer; in every reachable state the sentinels hold no
\* element and are neither unlinked nor invalidated; a replace or a delete
\* that succeeds acts on a node that is no sentinel.
C33_SentinelsOutOfReach ==
  /\ \A p \in Held : p.type = "Position" => p.node \notin Sentinels
  /\ \A L \in Lists : SentinelsIntact(Store, L)
  /\ \A L \in Lists, p \in Held :
       /\ SparesSentinels(p, delete(Store, L, p))
       /\ \A e \in Elements : SparesSentinels(p, replace(Store, L, p, e))

\* C33's case: after a delete the client holds the first and the last position
\* of a list, whose nodes are next to the sentinels; the other list is empty
\* and its first() is None, not a Position of its trailer.
C33_Witness ==
  \E L \in Lists, M \in Lists :
    /\ deletes[L] >= 1 /\ size[L] >= 2
    /\ slots["p"] = first(Store, L).value
    /\ slots["q"] = last(Store, L).value
    /\ heap[slots["p"].node].prev = Header(L)
    /\ heap[slots["q"].node].next = Trailer(L)
    /\ size[M] = 0
    /\ first(Store, M).value = NoneValue

\* Outcome o is the type error, and store S is as it was.
RejectsType(S, o) == RaisesType(S, o) /\ RaisesUntouched(S, o)

\* Outcome o is the wrong-container error, and store S is as it was.
RejectsContainer(S, o) == RaisesBelong(S, o) /\ RaisesUntouched(S, o)

\* Outcome o is the stale-position error, and store S is as it was.
RejectsStale(S, o) == RaisesStale(S, o) /\ RaisesUntouched(S, o)

\* Outcome o is none of the three errors of _validate.
PassesValidation(S, o) ==
  ~ RaisesType(S, o) /\ ~ RaisesBelong(S, o) /\ ~ RaisesStale(S, o)

\* C34: _validate makes its checks in the order type, container, staleness,
\* and before, after, add_before, add_after, delete and replace run it before
\* they touch the list: an argument that is no Position is a type error,
\* raised before any attribute of it is read; a Position of another list is a
\* wrong-container error, stale or not; only a Position of this list is
\* reported stale; each error leaves the nodes and the size as they were.
C34_ValidateOrder ==
  \A L \in Lists, p \in Held :
    /\ p.type # "Position" =>
         /\ RejectsType(Store, _validate(Store, L, p))
         /\ ForEachPositional(Store, L, p, RejectsType)
    /\ (p.type = "Position" /\ p.container # L) =>
         /\ RejectsContainer(Store, _validate(Store, L, p))
         /\ ForEachPositional(Store, L, p, RejectsContainer)
    /\ (p.type = "Position" /\ p.container = L /\ Stale(p)) =>
         /\ RejectsStale(Store, _validate(Store, L, p))
         /\ ForEachPositional(Store, L, p, RejectsStale)
    /\ (p.type = "Position" /\ p.container = L /\ ~ Stale(p)) =>
         /\ _validate(Store, L, p) = Return(heap, size, p.node)
         /\ ForEachPositional(Store, L, p, PassesValidation)

\* C34's case: the client passes to a list that still has a node a deleted
\* position of the other list, which is stale and of another container at
\* once, and None, which is no Position; it also holds a stale position of
\* the list itself.
C34_Witness ==
  \E L \in Lists :
    /\ size[L] >= 1
    /\ slots["p"] \in deleted /\ slots["p"].container # L
    /\ heap[slots["p"].node].next = None
    /\ delete(Store, L, slots["p"]).msg = BelongMsg
    /\ delete(Store, L, NoneValue).exc = "TypeError"
    /\ \E q \in issued : q.container = L /\ Stale(q)

\* Node n of store S is one that _delete_node may be given for list L: the
\* list is not empty and n is linked between its sentinels.
Deletable(S, L, n) ==
  /\ S.size[L] >= 1
  /\ n \notin Sentinels
  /\ LinkedIn(S, L, n)

\* Outcome o is that of a _delete_node that ran to its end on node n of list
\* L in store S: n is invalidated and the size is one less, not below zero.
DeletedNode(S, L, n, o) ==
  /\ o.exc = "none"
  /\ o.heap[n] = _Node(None, None, None)
  /\ o.size[L] = S.size[L] - 1
  /\ o.size[L] >= 0

\* C35: in every state reached through the public operations of the
\* PositionalLists and of the linked Deques, a call that gets as far as
\* _delete_node finds the list with size >= 1 and passes a node linked
\* between the list's sentinels, so that _delete_node runs to its end: a
\* PositionalList's delete, which has no emptiness check of its own, never
\* raises Empty, a Deque's delete_first and delete_last raise it only from
\* their own check on an empty Deque, and no size is ever negative.
C35_DeleteNodePrecondition ==
  /\ \A S \in LinkedStores, L \in Lists : S.size[L] >= 0
  /\ \A L \in Lists, p \in Held :
       /\ delete(Store, L, p).exc # "Empty"
       /\ Valid(Store, L, p) =>
            /\ Deletable(Store, L, _validate(Store, L, p).value)
            /\ DeletedNode(Store, L, p.node, delete(Store, L, p))
  /\ \A L \in Lists :
       IF is_empty(dq, L)
       THEN /\ delete_first(dq, L) = Raise(dq.heap, dq.size, "Empty", EmptyMsg)
            /\ delete_last(dq, L) = Raise(dq.heap, dq.size, "Empty", EmptyMsg)
       ELSE /\ Deletable(dq, L, dq.heap[Header(L)].next)
            /\ Deletable(dq, L, dq.heap[Trailer(L)].prev)
            /\ DeletedNode(dq, L, dq.heap[Header(L)].next, delete_first(dq, L))
            /\ DeletedNode(dq, L, dq.heap[Trailer(L)].prev, delete_last(dq, L))

\* C35's case: a PositionalList is empty again after two deletions, and the
\* client still holds the position of a deleted node of it and passes it to
\* delete, which stops in _validate.
C35_Witness ==
  \E L \in Lists :
    /\ size[L] = 0 /\ deletes[L] >= 2
    /\ slots["p"] \in deleted /\ slots["p"].container = L
    /\ delete(Store, L, slots["p"]).exc = "ValueError"

====
